---- MODULE Spec2Model ----
(***************************************************************************)
(* Model of poc_espanol/generador_musica.py: the Spanish-language facade   *)
(* GeneradorMusicaEspanol over the external ACE-Step pipeline, with the    *)
(* lyric composer crear_letra_personalizada, and of the command line of    *)
(* poc_espanol/demo.py.                                                    *)
(*                                                                         *)
(* Specifications.                                                         *)
(*   Spec            a facade and the calls of its caller                  *)
(*   SpecLetra       validar_letra on a text                               *)
(*   SpecCompositor  crear_letra_personalizada on its arguments            *)
(*   SpecCatalogo    the catalog accessors and the copies they return      *)
(*   SpecCLI         one run of demo.py                                    *)
(*                                                                         *)
(* Python values are modelled as follows.                                  *)
(*   str (lyrics)     a sequence of one-character strings                  *)
(*   Optional[T]      None is <<>>, a present value v is <<v>>             *)
(*   dict             a function whose domain is the set of keys           *)
(*   pipeline return  a tagged value: [none |-> TRUE], [str |-> s],        *)
(*                    [int |-> n], [dict |-> d], [list |-> <<v1, ...>>]    *)
(*   f-string         the sequence of its literal and interpolated parts   *)
(***************************************************************************)
EXTENDS Integers, Sequences, FiniteSets, TLC

VARIABLES gen, construidos, directorios, ult, previa, llamadas, texto, veredicto,
          los_versos, el_coro, el_bridge, letra_creada, objetos, copias, argv, proceso

vars == <<gen, construidos, directorios, ult, previa, llamadas, texto, veredicto,
          los_versos, el_coro, el_bridge, letra_creada, objetos, copias, argv, proceso>>

None == <<>>

Some(v) == <<v>>

(***************************************************************************)
(* str methods used by the facade                                          *)
(***************************************************************************)
Espacios == {" ", "\t", "\n", "\r"}

Mayusculas ==
    [c \in {"A", "B", "C", "D", "E", "F", "G", "H", "I", "J", "K", "L", "M",
            "N", "O", "P", "Q", "R", "S", "T", "U", "V", "W", "X", "Y", "Z"} |->
        CASE c = "A" -> "a" [] c = "B" -> "b" [] c = "C" -> "c" [] c = "D" -> "d"
          [] c = "E" -> "e" [] c = "F" -> "f" [] c = "G" -> "g" [] c = "H" -> "h"
          [] c = "I" -> "i" [] c = "J" -> "j" [] c = "K" -> "k" [] c = "L" -> "l"
          [] c = "M" -> "m" [] c = "N" -> "n" [] c = "O" -> "o" [] c = "P" -> "p"
          [] c = "Q" -> "q" [] c = "R" -> "r" [] c = "S" -> "s" [] c = "T" -> "t"
          [] c = "U" -> "u" [] c = "V" -> "v" [] c = "W" -> "w" [] c = "X" -> "x"
          [] c = "Y" -> "y" [] c = "Z" -> "z"]

\* str.lower()
lower(s) ==
    [i \in 1..Len(s) |-> IF s[i] \in DOMAIN Mayusculas THEN Mayusculas[s[i]] ELSE s[i]]

RECURSIVE lstrip(_)
lstrip(s) ==
    IF s # <<>> /\ Head(s) \in Espacios THEN lstrip(Tail(s)) ELSE s

RECURSIVE rstrip(_)
rstrip(s) ==
    IF s # <<>> /\ s[Len(s)] \in Espacios THEN rstrip(SubSeq(s, 1, Len(s) - 1)) ELSE s

\* str.strip()
strip(s) == rstrip(lstrip(s))

\* sub in s
contiene(sub, s) ==
    \E i \in 0..(Len(s) - Len(sub)) : SubSeq(s, i + 1, i + Len(sub)) = sub

\* s.startswith(prefijo)
startswith(s, prefijo) ==
    /\ Len(s) >= Len(prefijo)
    /\ SubSeq(s, 1, Len(prefijo)) = prefijo

\* s.split(sep) for a one-character separator: always at least one piece
RECURSIVE split(_, _)
split(s, sep) ==
    IF \A i \in 1..Len(s) : s[i] # sep
    THEN <<s>>
    ELSE LET k == CHOOSE i \in 1..Len(s) :
                      s[i] = sep /\ \A j \in 1..(i - 1) : s[j] # sep
         IN  <<SubSeq(s, 1, k - 1)>> \o split(SubSeq(s, k + 1, Len(s)), sep)

(***************************************************************************)
(* Catalog data                                                            *)
(***************************************************************************)
\* dict.keys() of GENEROS_ESPANOL, in insertion order
GENEROS_CLAVES ==
    <<"pop_latino", "reggaeton", "balada", "rock_espanol", "cumbia", "salsa",
      "bachata", "flamenco", "mariachi", "tango", "urbano", "folclore">>

GENEROS_ESPANOL ==
    [g \in {GENEROS_CLAVES[i] : i \in 1..Len(GENEROS_CLAVES)} |->
        CASE g = "pop_latino" -> "pop, latin pop, tropical, catchy, upbeat, spanish"
          [] g = "reggaeton" -> "reggaeton, urban latin, dembow, perreo, trap latino"
          [] g = "balada" -> "ballad, romantic, slow, emotional, acoustic guitar, piano"
          [] g = "rock_espanol" -> "rock en español, rock latino, guitar, drums, energetic"
          [] g = "cumbia" -> "cumbia, tropical, accordion, dance, festive, colombian"
          [] g = "salsa" -> "salsa, tropical, brass, piano, percussion, dance"
          [] g = "bachata" -> "bachata, romantic, guitar, dominican, sensual"
          [] g = "flamenco" -> "flamenco, spanish guitar, passionate, rhythmic, andalusian"
          [] g = "mariachi" -> "mariachi, mexican, trumpet, violin, traditional"
          [] g = "tango" -> "tango, argentine, bandoneon, dramatic, passionate"
          [] g = "urbano" -> "urban, trap, hip hop latino, 808, autotune"
          [] g = "folclore" -> "folk, acoustic, traditional, spanish, guitar"]


PlantillaAmor ==
       <<"[", "v", "e", "r", "s", "e", "]", "\n">>
    \o <<"C", "a", "d", "a", " ", "v", "e", "z", " ", "q", "u", "e", " ", "t", "e", " ", "v", "e", "o", " ", "p", "a", "s", "a", "r", "\n">>
    \o <<"M", "i", " ", "c", "o", "r", "a", "z", "ó", "n", " ", "e", "m", "p", "i", "e", "z", "a", " ", "a", " ", "l", "a", "t", "i", "r", "\n">>
    \o <<"N", "o", " ", "p", "u", "e", "d", "o", " ", "d", "e", "j", "a", "r", " ", "d", "e", " ", "p", "e", "n", "s", "a", "r", "\n">>
    \o <<"E", "n", " ", "t", "o", "d", "o", " ", "l", "o", " ", "q", "u", "e", " ", "q", "u", "i", "e", "r", "o", " ", "d", "e", "c", "i", "r", "\n">>
    \o <<"\n">>
    \o <<"[", "c", "h", "o", "r", "u", "s", "]", "\n">>
    \o <<"P", "o", "r", "q", "u", "e", " ", "t", "ú", " ", "e", "r", "e", "s", " ", "m", "i", " ", "l", "u", "z", "\n">>
    \o <<"M", "i", " ", "c", "a", "m", "i", "n", "o", " ", "y", " ", "m", "i", " ", "r", "a", "z", "ó", "n", "\n">>
    \o <<"C", "o", "n", "t", "i", "g", "o", " ", "t", "o", "d", "o", " ", "e", "s", " ", "m", "e", "j", "o", "r", "\n">>
    \o <<"E", "r", "e", "s", " ", "d", "u", "e", "ñ", "a", " ", "d", "e", " ", "m", "i", " ", "c", "o", "r", "a", "z", "ó", "n", "\n">>
    \o <<"\n">>
    \o <<"[", "v", "e", "r", "s", "e", "]", "\n">>
    \o <<"L", "a", "s", " ", "n", "o", "c", "h", "e", "s", " ", "s", "o", "n", " ", "m", "á", "s", " ", "l", "a", "r", "g", "a", "s", " ", "s", "i", "n", " ", "t", "i", "\n">>
    \o <<"L", "o", "s", " ", "d", "í", "a", "s", " ", "p", "i", "e", "r", "d", "e", "n", " ", "s", "u", " ", "c", "o", "l", "o", "r", "\n">>
    \o <<"P", "e", "r", "o", " ", "c", "u", "a", "n", "d", "o", " ", "e", "s", "t", "á", "s", " ", "a", "q", "u", "í", "\n">>
    \o <<"T", "o", "d", "o", " ", "b", "r", "i", "l", "l", "a", " ", "c", "o", "n", " ", "t", "u", " ", "a", "m", "o", "r", "\n">>
    \o <<"\n">>
    \o <<"[", "c", "h", "o", "r", "u", "s", "]", "\n">>
    \o <<"P", "o", "r", "q", "u", "e", " ", "t", "ú", " ", "e", "r", "e", "s", " ", "m", "i", " ", "l", "u", "z", "\n">>
    \o <<"M", "i", " ", "c", "a", "m", "i", "n", "o", " ", "y", " ", "m", "i", " ", "r", "a", "z", "ó", "n", "\n">>
    \o <<"C", "o", "n", "t", "i", "g", "o", " ", "t", "o", "d", "o", " ", "e", "s", " ", "m", "e", "j", "o", "r", "\n">>
    \o <<"E", "r", "e", "s", " ", "d", "u", "e", "ñ", "a", " ", "d", "e", " ", "m", "i", " ", "c", "o", "r", "a", "z", "ó", "n">>

PlantillaFiesta ==
       <<"[", "v", "e", "r", "s", "e", "]", "\n">>
    \o <<"L", "a", " ", "n", "o", "c", "h", "e", " ", "e", "s", "t", "á", " ", "e", "n", "c", "e", "n", "d", "i", "d", "a", "\n">>
    \o <<"L", "a", " ", "m", "ú", "s", "i", "c", "a", " ", "s", "u", "e", "n", "a", " ", "s", "i", "n", " ", "p", "a", "r", "a", "r", "\n">>
    \o <<"T", "o", "d", "o", "s", " ", "j", "u", "n", "t", "o", "s", " ", "e", "n", " ", "l", "a", " ", "p", "i", "s", "t", "a", "\n">>
    \o <<"E", "s", " ", "h", "o", "r", "a", " ", "d", "e", " ", "b", "a", "i", "l", "a", "r", "\n">>
    \o <<"\n">>
    \o <<"[", "c", "h", "o", "r", "u", "s", "]", "\n">>
    \o <<"M", "u", "e", "v", "e", " ", "e", "l", " ", "c", "u", "e", "r", "p", "o", " ", "a", "l", " ", "r", "i", "t", "m", "o", "\n">>
    \o <<"S", "i", "e", "n", "t", "e", " ", "l", "a", " ", "v", "i", "b", "r", "a", "c", "i", "ó", "n", "\n">>
    \o <<"E", "s", "t", "a", " ", "n", "o", "c", "h", "e", " ", "e", "s", " ", "n", "u", "e", "s", "t", "r", "a", "\n">>
    \o <<"V", "i", "v", "e", " ", "l", "a", " ", "e", "m", "o", "c", "i", "ó", "n", "\n">>
    \o <<"\n">>
    \o <<"[", "v", "e", "r", "s", "e", "]", "\n">>
    \o <<"L", "a", "s", " ", "l", "u", "c", "e", "s", " ", "p", "a", "r", "p", "a", "d", "e", "a", "n", "\n">>
    \o <<"E", "l", " ", "D", "J", " ", "s", "u", "b", "e", " ", "e", "l", " ", "v", "o", "l", "u", "m", "e", "n", "\n">>
    \o <<"L", "o", "s", " ", "p", "r", "o", "b", "l", "e", "m", "a", "s", " ", "s", "e", " ", "a", "l", "e", "j", "a", "n", "\n">>
    \o <<"Q", "u", "e", " ", "l", "a", " ", "f", "i", "e", "s", "t", "a", " ", "n", "o", " ", "s", "e", " ", "d", "e", "t", "e", "n", "g", "a", "\n">>
    \o <<"\n">>
    \o <<"[", "c", "h", "o", "r", "u", "s", "]", "\n">>
    \o <<"M", "u", "e", "v", "e", " ", "e", "l", " ", "c", "u", "e", "r", "p", "o", " ", "a", "l", " ", "r", "i", "t", "m", "o", "\n">>
    \o <<"S", "i", "e", "n", "t", "e", " ", "l", "a", " ", "v", "i", "b", "r", "a", "c", "i", "ó", "n", "\n">>
    \o <<"E", "s", "t", "a", " ", "n", "o", "c", "h", "e", " ", "e", "s", " ", "n", "u", "e", "s", "t", "r", "a", "\n">>
    \o <<"V", "i", "v", "e", " ", "l", "a", " ", "e", "m", "o", "c", "i", "ó", "n">>

PlantillaReflexion ==
       <<"[", "v", "e", "r", "s", "e", "]", "\n">>
    \o <<"C", "a", "m", "i", "n", "a", "n", "d", "o", " ", "p", "o", "r", " ", "l", "a", "s", " ", "c", "a", "l", "l", "e", "s", " ", "v", "a", "c", "í", "a", "s", "\n">>
    \o <<"P", "e", "n", "s", "a", "n", "d", "o", " ", "e", "n", " ", "l", "o", " ", "q", "u", "e", " ", "p", "u", "d", "o", " ", "s", "e", "r", "\n">>
    \o <<"R", "e", "c", "u", "e", "r", "d", "o", "s", " ", "d", "e", " ", "m", "e", "j", "o", "r", "e", "s", " ", "d", "í", "a", "s", "\n">>
    \o <<"Q", "u", "e", " ", "n", "o", " ", "v", "a", "n", " ", "a", " ", "v", "o", "l", "v", "e", "r", "\n">>
    \o <<"\n">>
    \o <<"[", "b", "r", "i", "d", "g", "e", "]", "\n">>
    \o <<"P", "e", "r", "o", " ", "a", "p", "r", "e", "n", "d", "í", " ", "a", " ", "l", "e", "v", "a", "n", "t", "a", "r", "m", "e", "\n">>
    \o <<"C", "a", "d", "a", " ", "v", "e", "z", " ", "q", "u", "e", " ", "c", "a", "í", "\n">>
    \o <<"A", " ", "n", "o", " ", "r", "e", "n", "d", "i", "r", "m", "e", " ", "n", "u", "n", "c", "a", "\n">>
    \o <<"A", " ", "c", "r", "e", "e", "r", " ", "e", "n", " ", "m", "í", "\n">>
    \o <<"\n">>
    \o <<"[", "c", "h", "o", "r", "u", "s", "]", "\n">>
    \o <<"P", "o", "r", "q", "u", "e", " ", "l", "a", " ", "v", "i", "d", "a", " ", "s", "i", "g", "u", "e", " ", "a", "d", "e", "l", "a", "n", "t", "e", "\n">>
    \o <<"C", "o", "n", " ", "s", "u", "s", " ", "a", "l", "t", "o", "s", " ", "y", " ", "s", "u", "s", " ", "b", "a", "j", "o", "s", "\n">>
    \o <<"L", "o", " ", "i", "m", "p", "o", "r", "t", "a", "n", "t", "e", " ", "e", "s", " ", "s", "e", "r", " ", "c", "o", "n", "s", "t", "a", "n", "t", "e", "\n">>
    \o <<"Y", " ", "d", "a", "r", " ", "s", "i", "e", "m", "p", "r", "e", " ", "l", "o", " ", "m", "á", "x", "i", "m", "o", "\n">>
    \o <<"\n">>
    \o <<"[", "v", "e", "r", "s", "e", "]", "\n">>
    \o <<"E", "l", " ", "t", "i", "e", "m", "p", "o", " ", "c", "u", "r", "a", " ", "l", "a", "s", " ", "h", "e", "r", "i", "d", "a", "s", "\n">>
    \o <<"L", "a", "s", " ", "t", "o", "r", "m", "e", "n", "t", "a", "s", " ", "s", "i", "e", "m", "p", "r", "e", " ", "p", "a", "s", "a", "n", "\n">>
    \o <<"N", "u", "e", "v", "a", "s", " ", "p", "u", "e", "r", "t", "a", "s", " ", "s", "e", " ", "a", "b", "r", "e", "n", "\n">>
    \o <<"C", "u", "a", "n", "d", "o", " ", "o", "t", "r", "a", "s", " ", "s", "e", " ", "c", "i", "e", "r", "r", "a", "n">>

\* The templates with the "fiesta" text under the key "amor"
PLANTILLAS_LETRAS_amor_es_fiesta ==
    [p \in {"amor", "fiesta", "reflexion"} |->
        CASE p = "amor" -> PlantillaFiesta
          [] p = "fiesta" -> PlantillaFiesta
          [] p = "reflexion" -> PlantillaReflexion]

PLANTILLAS_LETRAS ==
    [p \in {"amor", "fiesta", "reflexion"} |->
        CASE p = "amor" -> PlantillaAmor
          [] p = "fiesta" -> PlantillaFiesta
          [] p = "reflexion" -> PlantillaReflexion]

SVerse == <<"[", "v", "e", "r", "s", "e", "]">>

SChorus == <<"[", "c", "h", "o", "r", "u", "s", "]">>

SBridge == <<"[", "b", "r", "i", "d", "g", "e", "]">>

SIntro == <<"[", "i", "n", "t", "r", "o", "]">>

SOutro == <<"[", "o", "u", "t", "r", "o", "]">>

(***************************************************************************)
(* validar_letra                                                           *)
(***************************************************************************)
secciones_validas == <<SVerse, SChorus, SBridge, SIntro, SOutro>>

\* l.strip() and not l.strip().startswith("[")
es_linea_de_texto(l) == strip(l) # <<>> /\ ~startswith(strip(l), <<"[">>)

\* [l.strip() for l in ls if l.strip() and not l.strip().startswith("[")]
RECURSIVE lineas_de_texto(_)
lineas_de_texto(ls) ==
    IF ls = <<>> THEN <<>>
    ELSE (IF es_linea_de_texto(Head(ls)) THEN <<strip(Head(ls))>> ELSE <<>>)
             \o lineas_de_texto(Tail(ls))

\* The validation with the minimum of 4 lines taken as exclusive
validar_letra_mas_de_cuatro(letra) ==
    IF letra = <<>> \/ strip(letra) = <<>>
    THEN <<FALSE, "La letra no puede estar vacía">>
    ELSE LET tiene_seccion ==
                 \E k \in 1..Len(secciones_validas) :
                     contiene(secciones_validas[k], lower(letra))
             lineas == lineas_de_texto(split(letra, "\n"))
         IN  IF ~tiene_seccion
             THEN <<FALSE, "La letra debe contener al menos una sección ([verse], [chorus], etc.)">>
             ELSE IF Len(lineas) <= 4
             THEN <<FALSE, "La letra debe contener al menos 4 líneas de texto">>
             ELSE <<TRUE, "">>

validar_letra(letra) ==
    IF letra = <<>> \/ strip(letra) = <<>>
    THEN <<FALSE, "La letra no puede estar vacía">>
    ELSE LET tiene_seccion ==
                 \E k \in 1..Len(secciones_validas) :
                     contiene(secciones_validas[k], lower(letra))
             lineas == lineas_de_texto(split(letra, "\n"))
         IN  IF ~tiene_seccion
             THEN <<FALSE, "La letra debe contener al menos una sección ([verse], [chorus], etc.)">>
             ELSE IF Len(lineas) < 4
             THEN <<FALSE, "La letra debe contener al menos 4 líneas de texto">>
             ELSE <<TRUE, "">>

(***************************************************************************)
(* Configuration and result records                                        *)
(***************************************************************************)
\* The dataclass defaults.  Float fields that are only passed through are
\* kept as their literal text; durations are whole seconds.
ConfiguracionPorDefecto ==
    [duracion_segundos |-> 60,
     formato_salida |-> "wav",
     pasos_inferencia |-> 60,
     escala_guia |-> 15,
     tipo_scheduler |-> "euler",
     tipo_cfg |-> "apg",
     escala_omega |-> 10,
     intervalo_guia |-> "0.5",
     decaimiento_guia |-> "0.0",
     escala_guia_minima |-> 3,
     usar_erg_tag |-> TRUE,
     usar_erg_letra |-> TRUE,
     usar_erg_difusion |-> TRUE,
     semillas |-> None,
     directorio_salida |-> "./salidas_espanol",
     ruta_checkpoint |-> None,
     id_dispositivo |-> 0,
     usar_bf16 |-> TRUE,
     usar_cpu_offload |-> FALSE,
     usar_torch_compile |-> FALSE]

\* ConfiguracionGeneracion(**cambios)
ConfiguracionGeneracion(cambios) ==
    [k \in DOMAIN ConfiguracionPorDefecto |->
        IF k \in DOMAIN cambios THEN cambios[k] ELSE ConfiguracionPorDefecto[k]]

\* ResultadoGeneracion(exitoso=False, mensaje=mensaje): the other fields default
ResultadoFallido(mensaje) ==
    [exitoso |-> FALSE,
     ruta_audio |-> None,
     mensaje |-> mensaje,
     parametros |-> <<>>,
     tiempos |-> <<>>,
     semillas_usadas |-> <<>>]

(***************************************************************************)
(* Python helpers                                                          *)
(***************************************************************************)
\* truth value of an Optional[int]: None and 0 are false
verdadero_int(x) == x # None /\ x[1] # 0

\* truth value of an Optional[str] given as f-string parts: None and "" are false
verdadero_str(x) == x # None /\ \E i \in 1..Len(x[1]) : x[1][i] # ""

\* sep.join(xs), as parts
RECURSIVE join(_, _)
join(sep, xs) ==
    IF Len(xs) <= 1 THEN xs
    ELSE <<Head(xs), sep>> \o join(sep, Tail(xs))

\* d.get(k, defecto)
get(d, k, defecto) == IF k \in DOMAIN d THEN d[k] ELSE defecto

\* isinstance(v, list), isinstance(v, str), isinstance(v, dict)
es_list(v) == DOMAIN v = {"list"}

es_str(v) == DOMAIN v = {"str"}

es_dict(v) == DOMAIN v = {"dict"}

(***************************************************************************)
(* The facade                                                              *)
(***************************************************************************)
\* __init__
GeneradorMusicaEspanol(config) ==
    [config |-> IF config = None THEN ConfiguracionGeneracion(<<>>) ELSE config[1],
     _pipeline |-> None,
     _inicializado |-> FALSE]

\* The initialization with the flag set whether or not the constructor raised
_inicializar_pipeline_marca_siempre(self, ctor, nuevo) ==
    IF self._inicializado
    THEN [self |-> self, ret |-> TRUE, construcciones |-> <<>>]
    ELSE LET kwargs == [checkpoint_dir |-> self.config.ruta_checkpoint,
                        device_id |-> self.config.id_dispositivo,
                        dtype |-> IF self.config.usar_bf16 THEN "bfloat16" ELSE "float32",
                        torch_compile |-> self.config.usar_torch_compile,
                        cpu_offload |-> self.config.usar_cpu_offload]
         IN  IF ctor = "ok"
             THEN [self |-> [self EXCEPT !._pipeline = Some(nuevo), !._inicializado = TRUE],
                   ret |-> TRUE,
                   construcciones |-> <<[kwargs |-> kwargs, objeto |-> Some(nuevo)]>>]
             ELSE [self |-> [self EXCEPT !._inicializado = TRUE],
                   ret |-> FALSE,
                   construcciones |-> <<[kwargs |-> kwargs, objeto |-> None]>>]

\* The initialization without its early return for an initialized facade
_inicializar_pipeline_sin_guarda(self, ctor, nuevo) ==
    LET kwargs == [checkpoint_dir |-> self.config.ruta_checkpoint,
                   device_id |-> self.config.id_dispositivo,
                   dtype |-> IF self.config.usar_bf16 THEN "bfloat16" ELSE "float32",
                   torch_compile |-> self.config.usar_torch_compile,
                   cpu_offload |-> self.config.usar_cpu_offload]
    IN  IF ctor = "ok"
        THEN [self |-> [self EXCEPT !._pipeline = Some(nuevo), !._inicializado = TRUE],
              ret |-> TRUE,
              construcciones |-> <<[kwargs |-> kwargs, objeto |-> Some(nuevo)]>>]
        ELSE [self |-> self,
              ret |-> FALSE,
              construcciones |-> <<[kwargs |-> kwargs, objeto |-> None]>>]

\* _inicializar_pipeline that stores the pipeline and leaves the flag unset
_inicializar_pipeline_sin_bandera(self, ctor, nuevo) ==
    IF self._inicializado
    THEN [self |-> self, ret |-> TRUE, construcciones |-> <<>>]
    ELSE LET kwargs == [checkpoint_dir |-> self.config.ruta_checkpoint,
                        device_id |-> self.config.id_dispositivo,
                        dtype |-> IF self.config.usar_bf16 THEN "bfloat16" ELSE "float32",
                        torch_compile |-> self.config.usar_torch_compile,
                        cpu_offload |-> self.config.usar_cpu_offload]
         IN  IF ctor = "ok"
             THEN [self |-> [self EXCEPT !._pipeline = Some(nuevo)],
                   ret |-> TRUE,
                   construcciones |-> <<[kwargs |-> kwargs, objeto |-> Some(nuevo)]>>]
             ELSE [self |-> self,
                   ret |-> FALSE,
                   construcciones |-> <<[kwargs |-> kwargs, objeto |-> None]>>]

\* ctor is what constructing ACEStepPipeline does in
\* this call ("ok" or "raise"); nuevo is the identity of the object it would
\* return.  construcciones lists the constructor calls made.
_inicializar_pipeline(self, ctor, nuevo) ==
    IF self._inicializado
    THEN [self |-> self, ret |-> TRUE, construcciones |-> <<>>]
    ELSE LET kwargs == [checkpoint_dir |-> self.config.ruta_checkpoint,
                        device_id |-> self.config.id_dispositivo,
                        dtype |-> IF self.config.usar_bf16 THEN "bfloat16" ELSE "float32",
                        torch_compile |-> self.config.usar_torch_compile,
                        cpu_offload |-> self.config.usar_cpu_offload]
         IN  IF ctor = "ok"
             THEN [self |-> [self EXCEPT !._pipeline = Some(nuevo), !._inicializado = TRUE],
                   ret |-> TRUE,
                   construcciones |-> <<[kwargs |-> kwargs, objeto |-> Some(nuevo)]>>]
             ELSE [self |-> self,
                   ret |-> FALSE,
                   construcciones |-> <<[kwargs |-> kwargs, objeto |-> None]>>]

(***************************************************************************)
(* Inputs of the calls and behaviours of the collaborators                 *)
(***************************************************************************)
MaxLlamadas == 3

LetraSinSeccion == <<"h", "o", "l", "a", "\n", "m", "u", "n", "d", "o", "\n", "s", "i", "n", "\n", "s", "e", "c", "c", "i", "o", "n", "e", "s">>

LetraCorta == <<"[", "v", "e", "r", "s", "e", "]", "\n", "u", "n", "o", "\n", "d", "o", "s">>

LetraValida == <<"[", "c", "h", "o", "r", "u", "s", "]", "\n", "u", "n", "o", "\n", "d", "o", "s", "\n", "t", "r", "e", "s", "\n", "c", "u", "a", "t", "r", "o">>

Generos == {"pop_latino", "folclore", "jazz", "pop latino"}

Letras == {None, Some(<<>>), Some(LetraSinSeccion), Some(LetraCorta), Some(LetraValida)}

Duraciones == {9, 10, 240, 241}

Semillas == {None, Some(0), Some(7), Some(-7)}

Nombres == {None, Some(<<"cancion">>)}

\* GeneradorMusicaEspanol(config) is built with no config or with this one
ConfiguracionPersonal ==
    ConfiguracionGeneracion(
        [formato_salida |-> "mp3",
         pasos_inferencia |-> 10,
         semillas |-> Some(<<3, 4>>),
         directorio_salida |-> "./salidas_test",
         ruta_checkpoint |-> Some("./checkpoints"),
         id_dispositivo |-> 1,
         usar_bf16 |-> FALSE,
         usar_cpu_offload |-> TRUE,
         usar_torch_compile |-> TRUE])

Configuraciones == {None, Some(ConfiguracionPersonal)}

\* Values the external pipeline may return
Respuestas ==
    {[none |-> TRUE],
     [str |-> "salida.wav"],
     [dict |-> [actual_seeds |-> <<42>>]],
     [list |-> <<>>],
     [list |-> <<[str |-> "a.wav"]>>],
     [list |-> <<[str |-> "a.wav"], [dict |-> <<>>]>>],
     [list |-> <<[str |-> "a.wav"], [str |-> "b.wav"],
                 [dict |-> [timecosts |-> [diffusion |-> 5], actual_seeds |-> <<42>>]]>>],
     [list |-> <<[int |-> 7], [dict |-> [timecosts |-> [diffusion |-> 5]]]>>],
     [list |-> <<[dict |-> [actual_seeds |-> <<42>>]]>>]}

ResultadosPipeline ==
    {[raise |-> "CUDA out of memory"]} \cup {[retorno |-> v] : v \in Respuestas}

Entornos ==
    [ctor : {"ok", "raise"}, makedirs : {"ok", "raise"}, pipeline : ResultadosPipeline]

\* The memoised verdicts of validar_letra on the lyrics a call can carry
LetrasDeLlamada ==
    {PLANTILLAS_LETRAS[p] : p \in DOMAIN PLANTILLAS_LETRAS} \cup {l[1] : l \in Letras \ {None}}

validar_letra_de == [l \in LetrasDeLlamada |-> validar_letra(l)]

\* genero in GENEROS_ESPANOL
genero_valido(genero) == genero \in DOMAIN GENEROS_ESPANOL

\* The message with the catalog's descriptions listed in place of its ids
mensaje_genero_con_descripciones(genero) ==
    LET generos_validos ==
            join(", ", [i \in 1..Len(GENEROS_CLAVES) |-> GENEROS_ESPANOL[GENEROS_CLAVES[i]]])
    IN  <<"Género '", genero, "' no válido. Géneros disponibles: ">> \o generos_validos

\* f"Género '{genero}' no válido. Géneros disponibles: {generos_validos}"
mensaje_genero_no_valido(genero) ==
    LET generos_validos == join(", ", GENEROS_CLAVES)
    IN  <<"Género '", genero, "' no válido. Géneros disponibles: ">> \o generos_validos

\* The range check with the bounds 10 and 240 excluded
duracion_fuera_de_rango_estricto(duracion) == duracion <= 10 \/ duracion >= 240

\* The range check with "and" in place of "or"
duracion_fuera_de_rango_and(duracion) == duracion < 10 /\ duracion > 240

\* duracion < 10 or duracion > 240
duracion_fuera_de_rango(duracion) == duracion < 10 \/ duracion > 240

\* [semilla] if semilla else self.config.semillas
preparar_semillas(self, semilla) ==
    IF verdadero_int(semilla) THEN Some(<<semilla[1]>>) ELSE self.config.semillas

\* The extraction accepting only lists of more than one element
extraer_resultado_mas_de_uno(resultado) ==
    IF es_list(resultado) /\ Len(resultado.list) > 1
    THEN LET primero == resultado.list[1]
             ultimo == resultado.list[Len(resultado.list)]
             ruta_audio == IF es_str(primero) THEN Some(primero.str) ELSE None
             params == IF es_dict(ultimo) THEN ultimo.dict ELSE <<>>
         IN  [exitoso |-> TRUE,
              ruta_audio |-> ruta_audio,
              mensaje |-> <<"Generación completada exitosamente">>,
              parametros |-> params,
              tiempos |-> get(params, "timecosts", <<>>),
              semillas_usadas |-> get(params, "actual_seeds", <<>>)]
    ELSE ResultadoFallido(<<"El modelo no retornó un resultado válido">>)

\* The ResultadoGeneracion built from the value the pipeline returned
extraer_resultado(resultado) ==
    IF es_list(resultado) /\ Len(resultado.list) > 0
    THEN LET primero == resultado.list[1]
             ultimo == resultado.list[Len(resultado.list)]
             ruta_audio == IF es_str(primero) THEN Some(primero.str) ELSE None
             params == IF es_dict(ultimo) THEN ultimo.dict ELSE <<>>
         IN  [exitoso |-> TRUE,
              ruta_audio |-> ruta_audio,
              mensaje |-> <<"Generación completada exitosamente">>,
              parametros |-> params,
              tiempos |-> get(params, "timecosts", <<>>),
              semillas_usadas |-> get(params, "actual_seeds", <<>>)]
    ELSE ResultadoFallido(<<"El modelo no retornó un resultado válido">>)

\* A result of generar_cancion that made no call to a collaborator
SinEfectos(self, salida) ==
    [self |-> self, salida |-> salida,
     construcciones |-> <<>>, makedirs |-> <<>>, invocaciones |-> <<>>]

\* generar_cancion with an except clause that drops the pipeline
generar_cancion_reinicia_tras_error(self, genero, letra, duracion, semilla, nombre_archivo, ent, nuevo) ==
    IF ~genero_valido(genero)
    THEN SinEfectos(self, [retorno |-> ResultadoFallido(mensaje_genero_no_valido(genero))])
    ELSE
    LET letra1 == IF letra = None THEN PLANTILLAS_LETRAS["amor"] ELSE letra[1]
        es_valida == validar_letra_de[letra1][1]
        error == validar_letra_de[letra1][2]
    IN
    IF ~es_valida
    THEN SinEfectos(self, [retorno |-> ResultadoFallido(<<"Error en la letra: ", error>>)])
    ELSE IF duracion_fuera_de_rango(duracion)
    THEN SinEfectos(self, [retorno |-> ResultadoFallido(
             <<"La duración debe estar entre 10 y 240 segundos">>)])
    ELSE
    LET ini == _inicializar_pipeline(self, ent.ctor, nuevo) IN
    IF ~ini.ret
    THEN [self |-> ini.self,
          salida |-> [retorno |-> ResultadoFallido(
              <<"No se pudo inicializar el modelo. Verifica que tienes suficiente memoria GPU.">>)],
          construcciones |-> ini.construcciones, makedirs |-> <<>>, invocaciones |-> <<>>]
    ELSE
    LET dir == ini.self.config.directorio_salida
        intento == <<[ruta |-> dir, creado |-> ent.makedirs = "ok"]>>
    IN
    IF ent.makedirs # "ok"
    THEN [self |-> ini.self,
          salida |-> [excepcion |-> "OSError"],
          construcciones |-> ini.construcciones, makedirs |-> intento, invocaciones |-> <<>>]
    ELSE
    LET ruta_salida ==
            IF verdadero_str(nombre_archivo)
            THEN <<dir, "/">> \o nombre_archivo[1] \o <<".", ini.self.config.formato_salida>>
            ELSE <<dir>>
        prompt == GENEROS_ESPANOL[genero]
        semillas == preparar_semillas(ini.self, semilla)
        kwargs == [format |-> ini.self.config.formato_salida,
                   audio_duration |-> duracion,
                   prompt |-> prompt,
                   lyrics |-> letra1,
                   infer_step |-> ini.self.config.pasos_inferencia,
                   guidance_scale |-> ini.self.config.escala_guia,
                   scheduler_type |-> ini.self.config.tipo_scheduler,
                   cfg_type |-> ini.self.config.tipo_cfg,
                   omega_scale |-> ini.self.config.escala_omega,
                   manual_seeds |-> semillas,
                   guidance_interval |-> ini.self.config.intervalo_guia,
                   guidance_interval_decay |-> ini.self.config.decaimiento_guia,
                   min_guidance_scale |-> ini.self.config.escala_guia_minima,
                   use_erg_tag |-> ini.self.config.usar_erg_tag,
                   use_erg_lyric |-> ini.self.config.usar_erg_letra,
                   use_erg_diffusion |-> ini.self.config.usar_erg_difusion,
                   save_path |-> ruta_salida]
        invocacion == <<[pipeline |-> ini.self._pipeline, kwargs |-> kwargs,
                         respuesta |-> ent.pipeline]>>
        final(salida) ==
            [self |-> ini.self, salida |-> salida,
             construcciones |-> ini.construcciones, makedirs |-> intento,
             invocaciones |-> invocacion]
    IN
    IF "raise" \in DOMAIN ent.pipeline
    THEN [final([retorno |-> ResultadoFallido(
             <<"Error durante la generación: ", ent.pipeline.raise>>)])
             EXCEPT !.self = [ini.self EXCEPT !._pipeline = None, !._inicializado = FALSE]]
    ELSE
    final([retorno |-> extraer_resultado(ent.pipeline.retorno)])

\* generar_cancion with the duration check before the lyric check
generar_cancion_duracion_primero(self, genero, letra, duracion, semilla, nombre_archivo, ent, nuevo) ==
    IF ~genero_valido(genero)
    THEN SinEfectos(self, [retorno |-> ResultadoFallido(mensaje_genero_no_valido(genero))])
    ELSE
    LET letra1 == IF letra = None THEN PLANTILLAS_LETRAS["amor"] ELSE letra[1]
        es_valida == validar_letra_de[letra1][1]
        error == validar_letra_de[letra1][2]
    IN
    IF duracion_fuera_de_rango(duracion)
    THEN SinEfectos(self, [retorno |-> ResultadoFallido(
             <<"La duración debe estar entre 10 y 240 segundos">>)])
    ELSE IF ~es_valida
    THEN SinEfectos(self, [retorno |-> ResultadoFallido(<<"Error en la letra: ", error>>)])
    ELSE
    LET ini == _inicializar_pipeline(self, ent.ctor, nuevo) IN
    IF ~ini.ret
    THEN [self |-> ini.self,
          salida |-> [retorno |-> ResultadoFallido(
              <<"No se pudo inicializar el modelo. Verifica que tienes suficiente memoria GPU.">>)],
          construcciones |-> ini.construcciones, makedirs |-> <<>>, invocaciones |-> <<>>]
    ELSE
    LET dir == ini.self.config.directorio_salida
        intento == <<[ruta |-> dir, creado |-> ent.makedirs = "ok"]>>
    IN
    IF ent.makedirs # "ok"
    THEN [self |-> ini.self,
          salida |-> [excepcion |-> "OSError"],
          construcciones |-> ini.construcciones, makedirs |-> intento, invocaciones |-> <<>>]
    ELSE
    LET ruta_salida ==
            IF verdadero_str(nombre_archivo)
            THEN <<dir, "/">> \o nombre_archivo[1] \o <<".", ini.self.config.formato_salida>>
            ELSE <<dir>>
        prompt == GENEROS_ESPANOL[genero]
        semillas == preparar_semillas(ini.self, semilla)
        kwargs == [format |-> ini.self.config.formato_salida,
                   audio_duration |-> duracion,
                   prompt |-> prompt,
                   lyrics |-> letra1,
                   infer_step |-> ini.self.config.pasos_inferencia,
                   guidance_scale |-> ini.self.config.escala_guia,
                   scheduler_type |-> ini.self.config.tipo_scheduler,
                   cfg_type |-> ini.self.config.tipo_cfg,
                   omega_scale |-> ini.self.config.escala_omega,
                   manual_seeds |-> semillas,
                   guidance_interval |-> ini.self.config.intervalo_guia,
                   guidance_interval_decay |-> ini.self.config.decaimiento_guia,
                   min_guidance_scale |-> ini.self.config.escala_guia_minima,
                   use_erg_tag |-> ini.self.config.usar_erg_tag,
                   use_erg_lyric |-> ini.self.config.usar_erg_letra,
                   use_erg_diffusion |-> ini.self.config.usar_erg_difusion,
                   save_path |-> ruta_salida]
        invocacion == <<[pipeline |-> ini.self._pipeline, kwargs |-> kwargs,
                         respuesta |-> ent.pipeline]>>
        final(salida) ==
            [self |-> ini.self, salida |-> salida,
             construcciones |-> ini.construcciones, makedirs |-> intento,
             invocaciones |-> invocacion]
    IN
    IF "raise" \in DOMAIN ent.pipeline
    THEN final([retorno |-> ResultadoFallido(
             <<"Error durante la generación: ", ent.pipeline.raise>>)])
    ELSE
    final([retorno |-> extraer_resultado(ent.pipeline.retorno)])

\* generar_cancion.  ent says what each collaborator does if this call reaches
\* it: ent.ctor and ent.makedirs are "ok" or "raise"; ent.pipeline is
\* [raise |-> text] or [retorno |-> value].  The outcome is in salida:
\* [retorno |-> ResultadoGeneracion] or [excepcion |-> name].
generar_cancion(self, genero, letra, duracion, semilla, nombre_archivo, ent, nuevo) ==
    IF ~genero_valido(genero)
    THEN SinEfectos(self, [retorno |-> ResultadoFallido(mensaje_genero_no_valido(genero))])
    ELSE
    LET letra1 == IF letra = None THEN PLANTILLAS_LETRAS["amor"] ELSE letra[1]
        es_valida == validar_letra_de[letra1][1]
        error == validar_letra_de[letra1][2]
    IN
    IF ~es_valida
    THEN SinEfectos(self, [retorno |-> ResultadoFallido(<<"Error en la letra: ", error>>)])
    ELSE IF duracion_fuera_de_rango(duracion)
    THEN SinEfectos(self, [retorno |-> ResultadoFallido(
             <<"La duración debe estar entre 10 y 240 segundos">>)])
    ELSE
    LET ini == _inicializar_pipeline(self, ent.ctor, nuevo) IN
    IF ~ini.ret
    THEN [self |-> ini.self,
          salida |-> [retorno |-> ResultadoFallido(
              <<"No se pudo inicializar el modelo. Verifica que tienes suficiente memoria GPU.">>)],
          construcciones |-> ini.construcciones, makedirs |-> <<>>, invocaciones |-> <<>>]
    ELSE
    LET dir == ini.self.config.directorio_salida
        intento == <<[ruta |-> dir, creado |-> ent.makedirs = "ok"]>>
    IN
    IF ent.makedirs # "ok"
    THEN [self |-> ini.self,
          salida |-> [excepcion |-> "OSError"],
          construcciones |-> ini.construcciones, makedirs |-> intento, invocaciones |-> <<>>]
    ELSE
    LET ruta_salida ==
            IF verdadero_str(nombre_archivo)
            THEN <<dir, "/">> \o nombre_archivo[1] \o <<".", ini.self.config.formato_salida>>
            ELSE <<dir>>
        prompt == GENEROS_ESPANOL[genero]
        semillas == preparar_semillas(ini.self, semilla)
        kwargs == [format |-> ini.self.config.formato_salida,
                   audio_duration |-> duracion,
                   prompt |-> prompt,
                   lyrics |-> letra1,
                   infer_step |-> ini.self.config.pasos_inferencia,
                   guidance_scale |-> ini.self.config.escala_guia,
                   scheduler_type |-> ini.self.config.tipo_scheduler,
                   cfg_type |-> ini.self.config.tipo_cfg,
                   omega_scale |-> ini.self.config.escala_omega,
                   manual_seeds |-> semillas,
                   guidance_interval |-> ini.self.config.intervalo_guia,
                   guidance_interval_decay |-> ini.self.config.decaimiento_guia,
                   min_guidance_scale |-> ini.self.config.escala_guia_minima,
                   use_erg_tag |-> ini.self.config.usar_erg_tag,
                   use_erg_lyric |-> ini.self.config.usar_erg_letra,
                   use_erg_diffusion |-> ini.self.config.usar_erg_difusion,
                   save_path |-> ruta_salida]
        invocacion == <<[pipeline |-> ini.self._pipeline, kwargs |-> kwargs,
                         respuesta |-> ent.pipeline]>>
        final(salida) ==
            [self |-> ini.self, salida |-> salida,
             construcciones |-> ini.construcciones, makedirs |-> intento,
             invocaciones |-> invocacion]
    IN
    IF "raise" \in DOMAIN ent.pipeline
    THEN final([retorno |-> ResultadoFallido(
             <<"Error durante la generación: ", ent.pipeline.raise>>)])
    ELSE
    final([retorno |-> extraer_resultado(ent.pipeline.retorno)])

\* generar_demo with a temporary facade that does not take over the
\* caller's pipeline
generar_demo_sin_reutilizar(self, genero, ent, nuevo) ==
    LET config_demo == ConfiguracionGeneracion(
            [duracion_segundos |-> 30, pasos_inferencia |-> 27, escala_guia |-> 12])
        generador_demo == GeneradorMusicaEspanol(Some(config_demo))
        r == generar_cancion(generador_demo, genero, None, 30, None,
                             Some(<<"demo_", genero>>), ent, nuevo)
    IN  [self |-> self, demo |-> r.self, salida |-> r.salida,
         construcciones |-> r.construcciones, makedirs |-> r.makedirs,
         invocaciones |-> r.invocaciones]

\* generar_demo that hands the temporary facade's pipeline back to the caller's
generar_demo_comparte_estado(self, genero, ent, nuevo) ==
    LET config_demo == ConfiguracionGeneracion(
            [duracion_segundos |-> 30, pasos_inferencia |-> 27, escala_guia |-> 12])
        generador_demo == [GeneradorMusicaEspanol(Some(config_demo)) EXCEPT
                               !._pipeline = self._pipeline,
                               !._inicializado = self._inicializado]
        r == generar_cancion(generador_demo, genero, None, 30, None,
                             Some(<<"demo_", genero>>), ent, nuevo)
    IN  [self |-> [self EXCEPT !._pipeline = r.self._pipeline,
                               !._inicializado = r.self._inicializado],
         demo |-> r.self, salida |-> r.salida,
         construcciones |-> r.construcciones, makedirs |-> r.makedirs,
         invocaciones |-> r.invocaciones]

\* generar_demo with the three demo values applied to the caller's config
generar_demo_con_config_propia(self, genero, ent, nuevo) ==
    LET config_demo == [self.config EXCEPT !.duracion_segundos = 30,
                                           !.pasos_inferencia = 27,
                                           !.escala_guia = 12]
        generador_demo == [GeneradorMusicaEspanol(Some(config_demo)) EXCEPT
                               !._pipeline = self._pipeline,
                               !._inicializado = self._inicializado]
        r == generar_cancion(generador_demo, genero, None, 30, None,
                             Some(<<"demo_", genero>>), ent, nuevo)
    IN  [self |-> self, demo |-> r.self, salida |-> r.salida,
         construcciones |-> r.construcciones, makedirs |-> r.makedirs,
         invocaciones |-> r.invocaciones]

\* generar_demo: the temporary facade is returned in demo, the caller's in self
generar_demo(self, genero, ent, nuevo) ==
    LET config_demo == ConfiguracionGeneracion(
            [duracion_segundos |-> 30, pasos_inferencia |-> 27, escala_guia |-> 12])
        generador_demo == [GeneradorMusicaEspanol(Some(config_demo)) EXCEPT
                               !._pipeline = self._pipeline,
                               !._inicializado = self._inicializado]
        r == generar_cancion(generador_demo, genero, None, 30, None,
                             Some(<<"demo_", genero>>), ent, nuevo)
    IN  [self |-> self, demo |-> r.self, salida |-> r.salida,
         construcciones |-> r.construcciones, makedirs |-> r.makedirs,
         invocaciones |-> r.invocaciones]

(***************************************************************************)
(* crear_letra_personalizada                                               *)
(***************************************************************************)
\* sep.join(xs) for a list of str
RECURSIVE join_str(_, _)
join_str(sep, xs) ==
    IF xs = <<>> THEN <<>>
    ELSE IF Len(xs) = 1 THEN xs[1]
    ELSE xs[1] \o sep \o join_str(sep, Tail(xs))

\* truth value of an Optional[str]: None and "" are false
verdadero_texto(x) == x # None /\ x[1] # <<>>

\* The for loop of crear_letra_personalizada with a [chorus] block after
\* every verse
RECURSIVE partes_de_versos_coro_siempre(_, _, _)
partes_de_versos_coro_siempre(versos, coro, i) ==
    IF i >= Len(versos) THEN <<>>
    ELSE <<SVerse \o <<"\n">> \o versos[i + 1]>>
         \o <<SChorus \o <<"\n">> \o coro>>
         \o partes_de_versos_coro_siempre(versos, coro, i + 1)

\* The for loop of crear_letra_personalizada from index i on: the parts
\* appended for versos[i], versos[i + 1], ...
RECURSIVE partes_de_versos(_, _, _)
partes_de_versos(versos, coro, i) ==
    IF i >= Len(versos) THEN <<>>
    ELSE <<SVerse \o <<"\n">> \o versos[i + 1]>>
         \o (IF i = 0 THEN <<SChorus \o <<"\n">> \o coro>> ELSE <<>>)
         \o partes_de_versos(versos, coro, i + 1)

crear_letra_personalizada(versos, coro, bridge) ==
    LET partes == partes_de_versos(versos, coro, 0)
                  \o (IF verdadero_texto(bridge)
                      THEN <<SBridge \o <<"\n">> \o bridge[1],
                             SChorus \o <<"\n">> \o coro>>
                      ELSE <<>>)
    IN  join_str(<<"\n", "\n">>, partes)

(***************************************************************************)
(* Catalog accessors.  dict objects have identity: the two catalogs are    *)
(* objects of the module, a copy is a new object.                          *)
(*   objs.GENEROS_ESPANOL, objs.PLANTILLAS_LETRAS   the module's dicts     *)
(*   objs.creados                                   the dicts created      *)
(* A reference is [modulo |-> name] or [creado |-> i].                     *)
(***************************************************************************)
\* The dict a reference points to
valor(objs, ref) ==
    IF "modulo" \in DOMAIN ref THEN objs[ref.modulo] ELSE objs.creados[ref.creado]

\* The objects after the dict a reference points to has become d
asignar(objs, ref, d) ==
    IF "modulo" \in DOMAIN ref
    THEN [objs EXCEPT ![ref.modulo] = d]
    ELSE [objs EXCEPT !.creados[ref.creado] = d]

\* d[k] = v on a dict
setitem(d, k, v) == [x \in DOMAIN d \cup {k} |-> IF x = k THEN v ELSE d[x]]

\* del d[k] on a dict that has the key
delitem(d, k) == [x \in DOMAIN d \ {k} |-> d[x]]

\* dict.copy(): a new dict with the same items
copy(objs, ref) ==
    [objetos |-> [objs EXCEPT !.creados = Append(@, valor(objs, ref))],
     ref |-> [creado |-> Len(objs.creados) + 1]]

\* An accessor that hands out the module's dict itself
obtener_generos_disponibles_sin_copia(objs) ==
    [objetos |-> objs, ref |-> [modulo |-> "GENEROS_ESPANOL"]]

obtener_generos_disponibles(objs) == copy(objs, [modulo |-> "GENEROS_ESPANOL"])

obtener_plantillas_letras(objs) == copy(objs, [modulo |-> "PLANTILLAS_LETRAS"])

(***************************************************************************)
(* demo.py: the command line.                                              *)
(* The command line is a sequence of arguments, each an option with its    *)
(* value: [genero |-> "salsa"], [duracion |-> <<"3", "0">>] (the text      *)
(* typed, converted by the parser), [listar_generos |-> TRUE], ...         *)
(* A run ends with an exit status: the value main returns, the code of a   *)
(* SystemExit raised by the parser, or 1 for an exception nobody catches.  *)
(***************************************************************************)
Digitos ==
    [c \in {"0", "1", "2", "3", "4", "5", "6", "7", "8", "9"} |->
        CASE c = "0" -> 0 [] c = "1" -> 1 [] c = "2" -> 2 [] c = "3" -> 3
          [] c = "4" -> 4 [] c = "5" -> 5 [] c = "6" -> 6 [] c = "7" -> 7
          [] c = "8" -> 8 [] c = "9" -> 9]

\* int(s) for a text of decimal digits; None stands for ValueError
RECURSIVE int(_)
int(s) ==
    IF s = <<>> \/ \E i \in 1..Len(s) : s[i] \notin DOMAIN Digitos THEN None
    ELSE IF Len(s) = 1 THEN Some(Digitos[s[1]])
    ELSE Some(10 * int(SubSeq(s, 1, Len(s) - 1))[1] + Digitos[s[Len(s)]])

\* float(s) for a text of decimal digits (whole seconds); None stands for
\* ValueError
float(s) == int(s)

\* The Namespace of an empty command line: the defaults of the add_argument
\* calls
ArgumentosPorDefecto ==
    [listar_generos |-> FALSE,
     listar_plantillas |-> FALSE,
     genero |-> "pop_latino",
     plantilla |-> None,
     duracion |-> 60,
     pasos |-> 60,
     semilla |-> None,
     salida |-> "./salidas_espanol",
     nombre_archivo |-> None,
     cpu_offload |-> FALSE]

\* parser.parse_args() from argument i on with the Namespace ns built so far:
\* [args |-> Namespace], or [exit |-> code] when the parser ends the process
\* (0 after --help, 2 after a usage error)
RECURSIVE parse_args_desde(_, _, _)
parse_args_desde(args, i, ns) ==
    IF i > Len(args) THEN [args |-> ns]
    ELSE
    LET a == args[i]
        sigue(ns1) == parse_args_desde(args, i + 1, ns1)
    IN  IF "help" \in DOMAIN a THEN [exit |-> 0]
        ELSE IF "listar_generos" \in DOMAIN a
        THEN sigue([ns EXCEPT !.listar_generos = TRUE])
        ELSE IF "listar_plantillas" \in DOMAIN a
        THEN sigue([ns EXCEPT !.listar_plantillas = TRUE])
        ELSE IF "cpu_offload" \in DOMAIN a
        THEN sigue([ns EXCEPT !.cpu_offload = TRUE])
        ELSE IF "genero" \in DOMAIN a
        THEN IF a.genero \in DOMAIN GENEROS_ESPANOL
             THEN sigue([ns EXCEPT !.genero = a.genero])
             ELSE [exit |-> 2]
        ELSE IF "plantilla" \in DOMAIN a
        THEN IF a.plantilla \in DOMAIN PLANTILLAS_LETRAS
             THEN sigue([ns EXCEPT !.plantilla = Some(a.plantilla)])
             ELSE [exit |-> 2]
        ELSE IF "duracion" \in DOMAIN a
        THEN IF float(a.duracion) # None
             THEN sigue([ns EXCEPT !.duracion = float(a.duracion)[1]])
             ELSE [exit |-> 2]
        ELSE IF "pasos" \in DOMAIN a
        THEN IF int(a.pasos) # None
             THEN sigue([ns EXCEPT !.pasos = int(a.pasos)[1]])
             ELSE [exit |-> 2]
        ELSE IF "semilla" \in DOMAIN a
        THEN IF int(a.semilla) # None
             THEN sigue([ns EXCEPT !.semilla = int(a.semilla)])
             ELSE [exit |-> 2]
        ELSE IF "salida" \in DOMAIN a
        THEN sigue([ns EXCEPT !.salida = a.salida])
        ELSE sigue([ns EXCEPT !.nombre_archivo = Some(<<a.nombre_archivo>>)])

parse_args(args) == parse_args_desde(args, 1, ArgumentosPorDefecto)

\* A run of demo.py that generates nothing
SinGeneracion(codigo) ==
    [codigo |-> codigo, generadores |-> <<>>, canciones |-> <<>>]

\* generar_musica returning 0 whatever the result is
generar_musica_siempre_cero(args, ent) ==
    LET config == ConfiguracionGeneracion(
            [duracion_segundos |-> args.duracion,
             pasos_inferencia |-> args.pasos,
             directorio_salida |-> args.salida,
             usar_cpu_offload |-> args.cpu_offload])
        generador == GeneradorMusicaEspanol(Some(config))
        letra == IF args.plantilla # None /\ args.plantilla[1] \in DOMAIN PLANTILLAS_LETRAS
                 THEN PLANTILLAS_LETRAS[args.plantilla[1]]
                 ELSE PLANTILLAS_LETRAS["amor"]
        r == generar_cancion(generador, args.genero, Some(letra), args.duracion,
                             args.semilla, args.nombre_archivo, ent, 1)
    IN  [codigo |-> 0,
         generadores |-> <<generador>>,
         canciones |-> <<[genero |-> args.genero, letra |-> Some(letra),
                          duracion |-> args.duracion, semilla |-> args.semilla,
                          nombre_archivo |-> args.nombre_archivo, r |-> r]>>]

\* generar_musica(args): the exit status it leads to, the facades it
\* constructs and the generar_cancion calls it makes
generar_musica(args, ent) ==
    LET config == ConfiguracionGeneracion(
            [duracion_segundos |-> args.duracion,
             pasos_inferencia |-> args.pasos,
             directorio_salida |-> args.salida,
             usar_cpu_offload |-> args.cpu_offload])
        generador == GeneradorMusicaEspanol(Some(config))
        letra == IF args.plantilla # None /\ args.plantilla[1] \in DOMAIN PLANTILLAS_LETRAS
                 THEN PLANTILLAS_LETRAS[args.plantilla[1]]
                 ELSE PLANTILLAS_LETRAS["amor"]
        r == generar_cancion(generador, args.genero, Some(letra), args.duracion,
                             args.semilla, args.nombre_archivo, ent, 1)
    IN  [codigo |-> IF "excepcion" \in DOMAIN r.salida THEN 1
                    ELSE IF r.salida.retorno.exitoso THEN 0 ELSE 1,
         generadores |-> <<generador>>,
         canciones |-> <<[genero |-> args.genero, letra |-> Some(letra),
                          duracion |-> args.duracion, semilla |-> args.semilla,
                          nombre_archivo |-> args.nombre_archivo, r |-> r]>>]

\* sys.exit(main()) on the command line args
main(args, ent) ==
    LET p == parse_args(args) IN
    IF "exit" \in DOMAIN p THEN SinGeneracion(p.exit)
    ELSE IF p.args.listar_generos THEN SinGeneracion(0)
    ELSE IF p.args.listar_plantillas THEN SinGeneracion(0)
    ELSE generar_musica(p.args, ent)

(***************************************************************************)
(* State machine: one facade and its caller.                               *)
(*   gen          the facade (config, _pipeline, _inicializado)            *)
(*   construidos  how many ACEStepPipeline objects exist; they are         *)
(*                numbered 1, 2, ... in order of construction              *)
(*   directorios  the directories that exist                               *)
(*   ult          the call that has just returned (or raised): arguments,  *)
(*                state before it, calls made to collaborators, outcome    *)
(*   previa       outcome of the call before that                          *)
(*   llamadas     number of calls made                                     *)
(***************************************************************************)
\* A behaviour of the collaborators used to find out which of them a call
\* reaches
Sonda(ctor, makedirs) ==
    [ctor |-> ctor, makedirs |-> makedirs, pipeline |-> [retorno |-> [none |-> TRUE]]]

\* The behaviours of the collaborators that a call distinguishes, given which
\* of them it reaches: what a collaborator the call never reaches would do is
\* fixed to one value.
EntornosDe(alcanza_ctor, alcanza_makedirs, alcanza_pipeline) ==
    {e \in Entornos :
        /\ ~alcanza_ctor => e.ctor = "ok"
        /\ (~alcanza_makedirs \/ e.ctor = "raise") => e.makedirs = "ok"
        /\ (~alcanza_pipeline \/ e.ctor = "raise" \/ e.makedirs = "raise")
               => e.pipeline = [retorno |-> [none |-> TRUE]]}

SinLlamada ==
    [op |-> "ninguna", genero |-> "", letra |-> None, duracion |-> 0,
     semilla |-> None, nombre_archivo |-> None,
     antes |-> [gen |-> None, construidos |-> 0, directorios |-> {}],
     demo |-> None, salida |-> [ninguna |-> TRUE],
     construcciones |-> <<>>, makedirs |-> <<>>, invocaciones |-> <<>>]

\* What is remembered of a call once its result has been dropped
Resumen(llamada) ==
    [op |-> llamada.op,
     salida |-> IF "retorno" \in DOMAIN llamada.salida
                THEN [exitoso |-> llamada.salida.retorno.exitoso,
                      mensaje |-> llamada.salida.retorno.mensaje]
                ELSE llamada.salida]

\* The effects of a call r on the facade and on the world, and its record
Registrar(op, genero, letra, duracion, semilla, nombre_archivo, r, demo) ==
    /\ gen' = r.self
    /\ construidos' = construidos
           + Cardinality({i \in 1..Len(r.construcciones) : r.construcciones[i].objeto # None})
    /\ directorios' = directorios
           \cup {r.makedirs[i].ruta : i \in {j \in 1..Len(r.makedirs) : r.makedirs[j].creado}}
    /\ ult' = [op |-> op, genero |-> genero, letra |-> letra, duracion |-> duracion,
               semilla |-> semilla, nombre_archivo |-> nombre_archivo,
               antes |-> [gen |-> Some(gen), construidos |-> construidos,
                          directorios |-> directorios],
               demo |-> demo, salida |-> r.salida,
               construcciones |-> r.construcciones, makedirs |-> r.makedirs,
               invocaciones |-> r.invocaciones]
    /\ llamadas' = llamadas + 1
    /\ UNCHANGED <<previa, texto, veredicto>>
    /\ UNCHANGED <<los_versos, el_coro, el_bridge, letra_creada, objetos, copias, argv, proceso>>

Init ==
    /\ \E c \in Configuraciones : gen = GeneradorMusicaEspanol(c)
    /\ construidos = 0
    /\ directorios = {}
    /\ ult = SinLlamada
    /\ previa = Resumen(SinLlamada)
    /\ llamadas = 0
    /\ texto = <<>>
    /\ veredicto = None
    /\ los_versos = <<>> /\ el_coro = <<>> /\ el_bridge = None /\ letra_creada = None
    /\ objetos = <<>> /\ copias = <<>>
    /\ argv = <<>> /\ proceso = None

\* The caller calls gen.generar_cancion(...)
GenerarCancion ==
    /\ ult.op = "ninguna"
    /\ llamadas < MaxLlamadas
    /\ \E genero \in Generos, letra \in Letras, duracion \in Duraciones,
          semilla \in Semillas, nombre_archivo \in Nombres :
          LET Llamada(ent) ==
                  generar_cancion(gen, genero, letra, duracion, semilla,
                                  nombre_archivo, ent, construidos + 1)
          IN  \E ent \in EntornosDe(Llamada(Sonda("raise", "raise")).construcciones # <<>>,
                                    Llamada(Sonda("ok", "raise")).makedirs # <<>>,
                                    Llamada(Sonda("ok", "ok")).invocaciones # <<>>) :
                  Registrar("generar_cancion", genero, letra, duracion, semilla,
                            nombre_archivo, Llamada(ent), None)

\* The caller calls gen.generar_demo(genero)
GenerarDemo ==
    /\ ult.op = "ninguna"
    /\ llamadas < MaxLlamadas
    /\ \E genero \in Generos :
          LET Llamada(ent) == generar_demo(gen, genero, ent, construidos + 1)
          IN  \E ent \in EntornosDe(Llamada(Sonda("raise", "raise")).construcciones # <<>>,
                                    Llamada(Sonda("ok", "raise")).makedirs # <<>>,
                                    Llamada(Sonda("ok", "ok")).invocaciones # <<>>) :
                  Registrar("generar_demo", genero, None, 30, None,
                            Some(<<"demo_", genero>>), Llamada(ent),
                            Some(Llamada(ent).demo))

\* The caller is done with the result (or the exception) of its last call
Descartar ==
    /\ ult.op # "ninguna"
    /\ ult' = SinLlamada
    /\ previa' = Resumen(ult)
    /\ UNCHANGED <<gen, construidos, directorios, llamadas, texto, veredicto>>
    /\ UNCHANGED <<los_versos, el_coro, el_bridge, letra_creada, objetos, copias, argv, proceso>>

Next == GenerarCancion \/ GenerarDemo \/ Descartar

Spec == Init /\ [][Next]_vars

(***************************************************************************)
(* validar_letra on its own: the caller validates a text                   *)
(***************************************************************************)
MaxLineas == 5

\* First lines and following lines of the texts validated
Cabeceras ==
    {<<>>,
     <<" ", " ">>,
     <<"h", "o", "l", "a">>,
     <<"[", "v", "e", "r", "s", "e", "]">>,
     <<"[", "C", "H", "O", "R", "U", "S", "]">>,
     <<" ", "[", "B", "r", "i", "d", "g", "e", "]">>,
     <<"x", " ", "[", "i", "n", "t", "r", "o", "]", " ", "y">>,
     <<"[", "o", "u", "t", "r", "o", "]">>,
     <<"[", "c", "o", "r", "o", "]">>,
     <<"[", "v", "e", "r", "s", "e">>}

Lineas ==
    {<<>>,
     <<"a">>,
     <<" ", "b", "\r">>,
     <<"[", "x", "]">>,
     <<"\t">>,
     <<"[", "c", "h", "o", "r", "u", "s", "]">>}

\* The texts of at most n more lines, each after a line break
RECURSIVE Cuerpos(_)
Cuerpos(n) ==
    IF n = 0 THEN {<<>>}
    ELSE {<<>>} \cup {<<"\n">> \o l \o c : l \in Lineas, c \in Cuerpos(n - 1)}

Textos == {h \o c : h \in Cabeceras, c \in Cuerpos(MaxLineas - 1)}

InitLetra ==
    /\ gen = GeneradorMusicaEspanol(None)
    /\ construidos = 0
    /\ directorios = {}
    /\ ult = SinLlamada
    /\ previa = Resumen(SinLlamada)
    /\ llamadas = 0
    /\ texto \in Textos
    /\ veredicto = None
    /\ los_versos = <<>> /\ el_coro = <<>> /\ el_bridge = None /\ letra_creada = None
    /\ objetos = <<>> /\ copias = <<>>
    /\ argv = <<>> /\ proceso = None

\* The caller calls gen.validar_letra(texto)
ValidarLetra ==
    /\ veredicto = None
    /\ veredicto' = Some(validar_letra(texto))
    /\ UNCHANGED <<gen, construidos, directorios, ult, previa, llamadas, texto>>
    /\ UNCHANGED <<los_versos, el_coro, el_bridge, letra_creada, objetos, copias, argv, proceso>>

NextLetra == ValidarLetra

SpecLetra == InitLetra /\ [][NextLetra]_vars

(***************************************************************************)
(* crear_letra_personalizada on its own: the caller composes a lyric       *)
(*   los_versos, el_coro, el_bridge   the arguments                        *)
(*   letra_creada                     the str returned                     *)
(***************************************************************************)
MaxVersos == 3

VersosPosibles ==
    {<<"v", "1">>,
     <<>>,
     <<"x", "[", "c", "h", "o", "r", "u", "s", "]">>,
     <<"a", "\n", "b">>}

CorosPosibles ==
    {<<"c", "1">>,
     <<>>,
     <<"[", "b", "r", "i", "d", "g", "e", "]">>}

BridgesPosibles ==
    {None,
     Some(<<>>),
     Some(<<"b", "1">>),
     Some(<<"[", "c", "h", "o", "r", "u", "s", "]", "\n", "z">>)}

ListasDeVersos == UNION {[1..n -> VersosPosibles] : n \in 0..MaxVersos}

InitCompositor ==
    /\ gen = GeneradorMusicaEspanol(None)
    /\ construidos = 0
    /\ directorios = {}
    /\ ult = SinLlamada
    /\ previa = Resumen(SinLlamada)
    /\ llamadas = 0
    /\ texto = <<>>
    /\ veredicto = None
    /\ los_versos \in ListasDeVersos
    /\ el_coro \in CorosPosibles
    /\ el_bridge \in BridgesPosibles
    /\ letra_creada = None
    /\ objetos = <<>> /\ copias = <<>>
    /\ argv = <<>> /\ proceso = None

\* The caller calls crear_letra_personalizada(los_versos, el_coro, el_bridge)
CrearLetraPersonalizada ==
    /\ letra_creada = None
    /\ letra_creada' = Some(crear_letra_personalizada(los_versos, el_coro, el_bridge))
    /\ UNCHANGED <<gen, construidos, directorios, ult, previa, llamadas, texto, veredicto>>
    /\ UNCHANGED <<los_versos, el_coro, el_bridge, objetos, copias, argv, proceso>>

NextCompositor == CrearLetraPersonalizada

SpecCompositor == InitCompositor /\ [][NextCompositor]_vars

(***************************************************************************)
(* The catalog accessors on their own: a caller obtains copies and         *)
(* changes them.                                                           *)
(*   objetos   the dict objects (see above)                                *)
(*   copias    the references the caller holds, in order of the calls:     *)
(*             the reference returned, the catalog asked for, and whether  *)
(*             the caller has left the dict as it received it              *)
(***************************************************************************)
MaxCopias == 3

\* What the caller stores in a copy: key and value
CambiosDeGeneros == {<<"pop_latino", "x">>, <<"nuevo", "x">>}

CambiosDePlantillas == {<<"amor", <<"x">>>>, <<"nuevo", <<"x">>>>}

CambiosDe(catalogo) ==
    IF catalogo = "GENEROS_ESPANOL" THEN CambiosDeGeneros ELSE CambiosDePlantillas

InitCatalogo ==
    /\ gen = GeneradorMusicaEspanol(None)
    /\ construidos = 0
    /\ directorios = {}
    /\ ult = SinLlamada
    /\ previa = Resumen(SinLlamada)
    /\ llamadas = 0
    /\ texto = <<>>
    /\ veredicto = None
    /\ los_versos = <<>> /\ el_coro = <<>> /\ el_bridge = None /\ letra_creada = None
    /\ objetos = [GENEROS_ESPANOL |-> GENEROS_ESPANOL,
                  PLANTILLAS_LETRAS |-> PLANTILLAS_LETRAS,
                  creados |-> <<>>]
    /\ copias = <<>>
    /\ argv = <<>> /\ proceso = None

\* The caller keeps the reference an accessor returned
Guardar(catalogo, r) ==
    /\ objetos' = r.objetos
    /\ copias' = Append(copias, [ref |-> r.ref, de |-> catalogo, intacta |-> TRUE])
    /\ UNCHANGED <<gen, construidos, directorios, ult, previa, llamadas, texto, veredicto>>
    /\ UNCHANGED <<los_versos, el_coro, el_bridge, letra_creada, argv, proceso>>

\* The caller calls gen.obtener_generos_disponibles()
ObtenerGenerosDisponibles ==
    /\ Len(copias) < MaxCopias
    /\ Guardar("GENEROS_ESPANOL", obtener_generos_disponibles(objetos))

\* The caller calls gen.obtener_plantillas_letras()
ObtenerPlantillasLetras ==
    /\ Len(copias) < MaxCopias
    /\ Guardar("PLANTILLAS_LETRAS", obtener_plantillas_letras(objetos))

\* The dict behind the caller's i-th reference becomes d
Cambiar(i, d) ==
    /\ objetos' = asignar(objetos, copias[i].ref, d)
    /\ copias' = [copias EXCEPT ![i].intacta = FALSE]
    /\ UNCHANGED <<gen, construidos, directorios, ult, previa, llamadas, texto, veredicto>>
    /\ UNCHANGED <<los_versos, el_coro, el_bridge, letra_creada, argv, proceso>>

\* The caller inserts or overwrites an item of a dict it was given
PonerEnCopia ==
    \E i \in 1..Len(copias) : \E c \in CambiosDe(copias[i].de) :
        /\ get(valor(objetos, copias[i].ref), c[1], None) # c[2]
        /\ Cambiar(i, setitem(valor(objetos, copias[i].ref), c[1], c[2]))

\* The caller deletes an item of a dict it was given
QuitarDeCopia ==
    \E i \in 1..Len(copias) : \E c \in CambiosDe(copias[i].de) :
        /\ c[1] \in DOMAIN valor(objetos, copias[i].ref)
        /\ Cambiar(i, delitem(valor(objetos, copias[i].ref), c[1]))

NextCatalogo ==
    \/ ObtenerGenerosDisponibles
    \/ ObtenerPlantillasLetras
    \/ PonerEnCopia
    \/ QuitarDeCopia

SpecCatalogo == InitCatalogo /\ [][NextCatalogo]_vars

(***************************************************************************)
(* demo.py on its own: one run of the command line.                        *)
(*   argv      the arguments after the program name                        *)
(*   proceso   how the run ended: exit status, facades constructed and     *)
(*             generar_cancion calls made                                  *)
(***************************************************************************)
MaxArgumentos == 3

Argumentos ==
    {[help |-> TRUE],
     [listar_generos |-> TRUE],
     [listar_plantillas |-> TRUE],
     [cpu_offload |-> TRUE],
     [genero |-> "folclore"],
     [genero |-> "pop latino"],
     [plantilla |-> "fiesta"],
     [plantilla |-> "otra"],
     [duracion |-> <<"3", "0">>],
     [duracion |-> <<"5">>],
     [duracion |-> <<"3", "x">>],
     [pasos |-> <<"1", "0">>],
     [semilla |-> <<"7">>],
     [salida |-> "./otra"],
     [nombre_archivo |-> "cancion"]}

LineasDeComando == UNION {[1..n -> Argumentos] : n \in 0..MaxArgumentos}

InitCLI ==
    /\ gen = GeneradorMusicaEspanol(None)
    /\ construidos = 0
    /\ directorios = {}
    /\ ult = SinLlamada
    /\ previa = Resumen(SinLlamada)
    /\ llamadas = 0
    /\ texto = <<>>
    /\ veredicto = None
    /\ los_versos = <<>> /\ el_coro = <<>> /\ el_bridge = None /\ letra_creada = None
    /\ objetos = <<>> /\ copias = <<>>
    /\ argv \in LineasDeComando
    /\ proceso = None

\* The run of python demo.py argv
Main ==
    /\ proceso = None
    /\ LET Ejecucion(ent) == main(argv, ent)
           Alcanza(e, campo) ==
               \E i \in 1..Len(e.canciones) : e.canciones[i].r[campo] # <<>>
       IN  \E ent \in EntornosDe(
                   Alcanza(Ejecucion(Sonda("raise", "raise")), "construcciones"),
                   Alcanza(Ejecucion(Sonda("ok", "raise")), "makedirs"),
                   Alcanza(Ejecucion(Sonda("ok", "ok")), "invocaciones")) :
               proceso' = Some(Ejecucion(ent))
    /\ UNCHANGED <<gen, construidos, directorios, ult, previa, llamadas, texto, veredicto>>
    /\ UNCHANGED <<los_versos, el_coro, el_bridge, letra_creada, objetos, copias, argv>>

NextCLI == Main

SpecCLI == InitCLI /\ [][NextCLI]_vars

(***************************************************************************)
(* Properties                                                              *)
(***************************************************************************)
\* The lyrics a call works on: the "amor" template when none are passed
LetraUsada(ll) == IF ll.letra = None THEN PLANTILLAS_LETRAS["amor"] ELSE ll.letra[1]

\* The three validations of generar_cancion pass on the arguments of call ll
EntradasValidas(ll) ==
    /\ ll.genero \in DOMAIN GENEROS_ESPANOL
    /\ validar_letra_de[LetraUsada(ll)][1]
    /\ ll.duracion >= 10
    /\ ll.duracion <= 240

Retorno(ll) == "retorno" \in DOMAIN ll.salida

\* The call returned a failed result whose message starts with inicio
FalloCon(ll, inicio) ==
    /\ Retorno(ll)
    /\ ~ll.salida.retorno.exitoso
    /\ ll.salida.retorno.mensaje # <<>>
    /\ ll.salida.retorno.mensaje[1] = inicio

Menciona(mensaje, parte) == \E i \in 1..Len(mensaje) : mensaje[i] = parte

\* C1: a generar_cancion call whose genre is not a key of the catalog returns
\* a failed result, whatever the other arguments are; its message names the
\* genre passed and lists each of the 12 ids of the catalog.
C1_GeneroNoValido ==
    (ult.op = "generar_cancion" /\ ult.genero \notin DOMAIN GENEROS_ESPANOL) =>
        /\ Retorno(ult)
        /\ ~ult.salida.retorno.exitoso
        /\ Menciona(ult.salida.retorno.mensaje, ult.genero)
        /\ Cardinality(DOMAIN GENEROS_ESPANOL) = 12
        /\ \A g \in DOMAIN GENEROS_ESPANOL : Menciona(ult.salida.retorno.mensaje, g)

C1_Testigo ==
    /\ ult.op = "generar_cancion"
    /\ ult.genero = "pop latino"
    /\ ult.letra = Some(LetraCorta)
    /\ ult.duracion = 241
    /\ ult.semilla = Some(7)
    /\ ult.antes.gen[1]._inicializado
    /\ FalloCon(ult, "Género '")
    /\ Menciona(ult.salida.retorno.mensaje, "pop latino")
    /\ Menciona(ult.salida.retorno.mensaje, "folclore")

\* C2: a generar_cancion call whose genre, lyrics or duration fails validation
\* has no side effects: it makes no attempt to construct the pipeline, no
\* attempt to create a directory and no pipeline invocation, and the facade,
\* the pipelines in existence and the directories are as before the call.
C2_SinEfectos ==
    (ult.op = "generar_cancion" /\ ~EntradasValidas(ult)) =>
        /\ ult.construcciones = <<>>
        /\ ult.makedirs = <<>>
        /\ ult.invocaciones = <<>>
        /\ gen = ult.antes.gen[1]
        /\ construidos = ult.antes.construidos
        /\ directorios = ult.antes.directorios

C2_Testigo ==
    /\ ult.op = "generar_cancion"
    /\ ult.genero = "pop_latino"
    /\ ult.letra = Some(LetraValida)
    /\ ult.duracion = 241
    /\ ~ult.antes.gen[1]._inicializado
    /\ ult.construcciones = <<>>
    /\ gen = ult.antes.gen[1]
    /\ FalloCon(ult, "La duración debe estar entre 10 y 240 segundos")

\* C3: every result returned by generar_cancion (called directly or by
\* generar_demo) has no audio path when it is failed, and has an audio path
\* and a non-empty message when it is successful.
C3_ResultadoCoherente ==
    (ult.op # "ninguna" /\ Retorno(ult)) =>
        LET res == ult.salida.retorno
        IN  /\ ~res.exitoso => res.ruta_audio = None
            /\ res.exitoso => (res.ruta_audio # None /\ res.mensaje # <<>>)

\* A collaborator reached by the call failed: the constructor raised,
\* os.makedirs raised or the pipeline raised
ColaboradorFallo(ll) ==
    \/ \E i \in 1..Len(ll.construcciones) : ll.construcciones[i].objeto = None
    \/ \E i \in 1..Len(ll.makedirs) : ~ll.makedirs[i].creado
    \/ \E i \in 1..Len(ll.invocaciones) : "raise" \in DOMAIN ll.invocaciones[i].respuesta

\* C4: generar_cancion never raises: every call returns a result, and when a
\* collaborator it reached failed the result is failed and carries a message.
C4_NuncaLanza ==
    ult.op = "generar_cancion" =>
        /\ Retorno(ult)
        /\ ColaboradorFallo(ult) =>
               (~ult.salida.retorno.exitoso /\ ult.salida.retorno.mensaje # <<>>)

MensajeMemoria ==
    "No se pudo inicializar el modelo. Verifica que tienes suficiente memoria GPU."

\* The call before the last was a generar_cancion whose initialization failed
PreviaSinInicializar ==
    /\ previa.op = "generar_cancion"
    /\ previa.salida = [exitoso |-> FALSE, mensaje |-> <<MensajeMemoria>>]

\* What C5 says of the call in which the construction of the pipeline fails
C5_LlamadaFallida ==
    (/\ ult.op = "generar_cancion"
     /\ \E i \in 1..Len(ult.construcciones) : ult.construcciones[i].objeto = None) =>
        /\ EntradasValidas(ult)
        /\ Len(ult.construcciones) = 1
        /\ FalloCon(ult, MensajeMemoria)
        /\ ult.invocaciones = <<>>
        /\ ~gen._inicializado
        /\ gen._pipeline = None

C6_UnaSolaInicializacion ==
    ult.op = "generar_cancion" =>
        /\ ult.antes.gen[1]._inicializado =>
               /\ gen = ult.antes.gen[1]
               /\ ult.construcciones = <<>>
               /\ construidos = ult.antes.construidos
               /\ \A i \in 1..Len(ult.invocaciones) :
                      ult.invocaciones[i].pipeline = ult.antes.gen[1]._pipeline
        /\ \A i \in 1..Len(ult.construcciones) :
               ult.construcciones[i].objeto # None =>
                   /\ ~ult.antes.gen[1]._inicializado
                   /\ Len(ult.construcciones) = 1
                   /\ gen._inicializado
                   /\ gen._pipeline = ult.construcciones[i].objeto

C6_Testigo ==
    /\ ult.op = "generar_cancion"
    /\ llamadas = 3
    /\ previa.op = "generar_cancion"
    /\ ult.antes.gen[1]._inicializado
    /\ ult.antes.gen[1]._pipeline = Some(1)
    /\ Len(ult.invocaciones) = 1
    /\ ult.invocaciones[1].pipeline = Some(1)
    /\ gen._pipeline = Some(1)

\* C7: when a seed is passed, whatever integer it is, the pipeline receives
\* the one-element list holding it; when none is passed it receives the
\* config's seed list as it is.
C7_Semillas ==
    ult.op = "generar_cancion" =>
        \A i \in 1..Len(ult.invocaciones) :
            ult.invocaciones[i].kwargs.manual_seeds =
                IF ult.semilla # None THEN Some(<<ult.semilla[1]>>)
                ELSE ult.antes.gen[1].config.semillas

\* C8: the result of a call in which the pipeline returned r.  If r is a
\* non-empty list: successful, the path is r's first element when that is a
\* str, the parameters are r's last element when that is a dict and empty
\* otherwise, the timings and the seeds used are the parameters' "timecosts"
\* and "actual_seeds", empty when absent.  If r is anything else: failed with
\* the invalid-result message.
C8_Normalizacion ==
    ult.op = "generar_cancion" =>
        \A i \in 1..Len(ult.invocaciones) :
            "retorno" \in DOMAIN ult.invocaciones[i].respuesta =>
                LET r == ult.invocaciones[i].respuesta.retorno IN
                IF DOMAIN r = {"list"} /\ r.list # <<>>
                THEN LET primero == r.list[1]
                         ultimo == r.list[Len(r.list)]
                         res == ult.salida.retorno
                     IN  /\ Retorno(ult)
                         /\ res.exitoso
                         /\ DOMAIN primero = {"str"} => res.ruta_audio = Some(primero.str)
                         /\ res.parametros =
                                (IF DOMAIN ultimo = {"dict"} THEN ultimo.dict ELSE <<>>)
                         /\ res.tiempos =
                                (IF "timecosts" \in DOMAIN res.parametros
                                 THEN res.parametros.timecosts ELSE <<>>)
                         /\ res.semillas_usadas =
                                (IF "actual_seeds" \in DOMAIN res.parametros
                                 THEN res.parametros.actual_seeds ELSE <<>>)
                ELSE FalloCon(ult, "El modelo no retornó un resultado válido")

C8_Testigo ==
    /\ ult.op = "generar_cancion"
    /\ Len(ult.invocaciones) = 1
    /\ ult.invocaciones[1].respuesta =
           [retorno |-> [list |-> <<[dict |-> [actual_seeds |-> <<42>>]]>>]]
    /\ Retorno(ult)
    /\ ult.salida.retorno.exitoso
    /\ ult.salida.retorno.parametros = [actual_seeds |-> <<42>>]
    /\ ult.salida.retorno.semillas_usadas = <<42>>
    /\ ult.salida.retorno.tiempos = <<>>

\* C9: with a valid genre and valid lyrics, generar_cancion returns the
\* duration failure exactly when duracion < 10 or duracion > 240; with
\* duracion in 10..240, bounds included, the call goes on to initialize the
\* pipeline (or, the facade being initialized, to the output directory).
C9_Duracion ==
    (/\ ult.op = "generar_cancion"
     /\ ult.genero \in DOMAIN GENEROS_ESPANOL
     /\ validar_letra_de[LetraUsada(ult)][1]) =>
        /\ FalloCon(ult, "La duración debe estar entre 10 y 240 segundos")
               <=> (ult.duracion < 10 \/ ult.duracion > 240)
        /\ (ult.duracion >= 10 /\ ult.duracion <= 240) =>
               IF ult.antes.gen[1]._inicializado
               THEN Len(ult.makedirs) = 1
               ELSE Len(ult.construcciones) = 1

C9_Testigo ==
    /\ ult.op = "generar_cancion"
    /\ ult.duracion = 240
    /\ previa.op = "generar_cancion"
    /\ previa.salida = [exitoso |-> FALSE,
                        mensaje |-> <<"La duración debe estar entre 10 y 240 segundos">>]
    /\ ~ult.antes.gen[1]._inicializado
    /\ Len(ult.construcciones) = 1

\* The text is empty or consists of whitespace
SoloEspacios(t) == \A i \in 1..Len(t) : t[i] \in {" ", "\t", "\n", "\r"}

Minuscula(c) == IF c \in DOMAIN Mayusculas THEN Mayusculas[c] ELSE c

\* The marker m occurs in the lower-cased text t
ApareceEn(m, t) ==
    \E i \in 1..(Len(t) - Len(m) + 1) :
        \A j \in 1..Len(m) : Minuscula(t[i + j - 1]) = m[j]

\* The line of t that starts at position p has a first visible character,
\* and it is not "["
LineaDeContenido(t, p) ==
    \E k \in p..Len(t) :
        /\ \A j \in p..(k - 1) : t[j] \in {" ", "\t", "\r"}
        /\ t[k] \notin {" ", "\t", "\r", "\n", "["}

\* Number of lines of t that are non-empty after trimming and do not start
\* with "["
LineasDeContenido(t) ==
    Cardinality({p \in 1..Len(t) : (p = 1 \/ t[p - 1] = "\n") /\ LineaDeContenido(t, p)})

\* C10: validar_letra decides in this order: an empty or whitespace-only
\* text fails as empty; a text in which none of the five markers occurs
\* (case-insensitively) fails as lacking a section; a text with fewer than 4
\* lines that are non-empty after trimming and do not start with "[" fails as
\* too short; any other text is valid with an empty error.
C10_ValidarLetra ==
    veredicto # None =>
        veredicto[1] =
            IF SoloEspacios(texto)
            THEN <<FALSE, "La letra no puede estar vacía">>
            ELSE IF \A m \in {SVerse, SChorus, SBridge, SIntro, SOutro} : ~ApareceEn(m, texto)
            THEN <<FALSE, "La letra debe contener al menos una sección ([verse], [chorus], etc.)">>
            ELSE IF LineasDeContenido(texto) < 4
            THEN <<FALSE, "La letra debe contener al menos 4 líneas de texto">>
            ELSE <<TRUE, "">>

C10_Testigo ==
    /\ veredicto = Some(<<TRUE, "">>)
    /\ LineasDeContenido(texto) = 4
    /\ ApareceEn(SBridge, texto)
    /\ \A m \in {SVerse, SChorus, SIntro, SOutro} : ~ApareceEn(m, texto)

\* The positions of t at which the marker m starts
Ocurrencias(m, t) ==
    {i \in 1..(Len(t) - Len(m) + 1) : SubSeq(t, i, i + Len(m) - 1) = m}

\* Block k of the lyric composed from los_versos, el_coro and el_bridge when
\* the bridge counts as supplied or not: [verse] v1, [chorus], [verse] v2,
\* ..., [verse] vn, and then [bridge], [chorus]
BloqueEsperado(k) ==
    LET n == Len(los_versos)
    IN  IF k = 1 THEN SVerse \o <<"\n">> \o los_versos[1]
        ELSE IF k = 2 THEN SChorus \o <<"\n">> \o el_coro
        ELSE IF k <= n + 1 THEN SVerse \o <<"\n">> \o los_versos[k - 1]
        ELSE IF k = n + 2 THEN SBridge \o <<"\n">> \o el_bridge[1]
        ELSE SChorus \o <<"\n">> \o el_coro

\* Position of the lyric at which block k starts, blocks being separated by
\* a blank line
RECURSIVE InicioDeBloque(_)
InicioDeBloque(k) ==
    IF k = 1 THEN 1
    ELSE InicioDeBloque(k - 1) + Len(BloqueEsperado(k - 1)) + 2

\* The lyric t is the blank-line-joined sequence of the first N blocks
EsSecuenciaDeBloques(t, N) ==
    /\ Len(t) = InicioDeBloque(N) + Len(BloqueEsperado(N)) - 1
    /\ \A k \in 1..N :
           SubSeq(t, InicioDeBloque(k), InicioDeBloque(k) + Len(BloqueEsperado(k)) - 1)
               = BloqueEsperado(k)
    /\ \A k \in 2..N :
           /\ t[InicioDeBloque(k) - 2] = "\n"
           /\ t[InicioDeBloque(k) - 1] = "\n"

\* The marker counts of the lyric t: one [chorus] without a bridge; two
\* [chorus] and one [bridge], the bridge before the second chorus, with one
MarcadoresContados(t, con_bridge) ==
    IF con_bridge
    THEN /\ Cardinality(Ocurrencias(SChorus, t)) = 2
         /\ Cardinality(Ocurrencias(SBridge, t)) = 1
         /\ \A b \in Ocurrencias(SBridge, t) :
                \E c1, c2 \in Ocurrencias(SChorus, t) : c1 < b /\ b < c2
    ELSE Cardinality(Ocurrencias(SChorus, t)) = 1

\* None of the verses, the chorus or the bridge contains a [chorus] or
\* [bridge] marker
TextosSinMarcadores ==
    \A t \in {los_versos[i] : i \in 1..Len(los_versos)} \cup {el_coro}
              \cup {el_bridge[i] : i \in 1..Len(el_bridge)} :
        Ocurrencias(SChorus, t) = {} /\ Ocurrencias(SBridge, t) = {}

\* C11 as stated: for every non-empty list of verses, every chorus and every
\* supplied bridge (any value other than None), the lyric composed is the
\* blank-line-joined sequence [verse] v1, [chorus], [verse] v2, ...,
\* [verse] vn, followed when a bridge is supplied by a [bridge] block and
\* one more [chorus] block; and it contains exactly one [chorus] marker
\* without a bridge, exactly two [chorus] markers and one [bridge] marker
\* with one, the bridge before the second chorus.
C11_Original ==
    (letra_creada # None /\ los_versos # <<>>) =>
        LET con_bridge == el_bridge # None
        IN  /\ EsSecuenciaDeBloques(letra_creada[1],
                    Len(los_versos) + 1 + (IF con_bridge THEN 2 ELSE 0))
            /\ MarcadoresContados(letra_creada[1], con_bridge)

\* C11 amended: a bridge counts as supplied when it is neither None nor the
\* empty string; the block structure holds for every non-empty list of
\* verses, every chorus and every bridge, and the marker counts hold when no
\* verse, chorus or bridge text contains a [chorus] or [bridge] marker of
\* its own.
C11_Bloques ==
    (letra_creada # None /\ los_versos # <<>>) =>
        LET con_bridge == el_bridge # None /\ el_bridge[1] # <<>>
        IN  /\ EsSecuenciaDeBloques(letra_creada[1],
                    Len(los_versos) + 1 + (IF con_bridge THEN 2 ELSE 0))
            /\ TextosSinMarcadores => MarcadoresContados(letra_creada[1], con_bridge)

C11_Testigo ==
    /\ letra_creada # None
    /\ Len(los_versos) = 3
    /\ los_versos[2] # los_versos[3]
    /\ el_bridge = Some(<<"b", "1">>)
    /\ TextosSinMarcadores
    /\ Cardinality(Ocurrencias(SChorus, letra_creada[1])) = 2
    /\ Cardinality(Ocurrencias(SVerse, letra_creada[1])) = 3

\* The original content of a catalog
Original(catalogo) ==
    IF catalogo = "GENEROS_ESPANOL" THEN GENEROS_ESPANOL ELSE PLANTILLAS_LETRAS

\* C12: whatever accessor calls the caller has made and whatever items it
\* has inserted, overwritten or deleted in the dicts returned, the two
\* catalogs of the module are unchanged (12 genres, 3 templates); every dict
\* the caller received and has not changed itself still equals the catalog
\* it was asked from (so a fresh call returns the original content and a
\* change to one copy does not show in another); and each call returned a
\* dict object of its own, distinct from the catalog's and from every other
\* call's.
C12_CopiasIndependientes ==
    objetos # <<>> =>
        /\ objetos.GENEROS_ESPANOL = GENEROS_ESPANOL
        /\ Cardinality(DOMAIN objetos.GENEROS_ESPANOL) = 12
        /\ objetos.PLANTILLAS_LETRAS = PLANTILLAS_LETRAS
        /\ Cardinality(DOMAIN objetos.PLANTILLAS_LETRAS) = 3
        /\ \A i \in 1..Len(copias) :
               /\ copias[i].intacta => valor(objetos, copias[i].ref) = Original(copias[i].de)
               /\ "modulo" \notin DOMAIN copias[i].ref
               /\ \A j \in 1..Len(copias) : copias[i].ref = copias[j].ref => i = j

C12_Testigo ==
    /\ Len(copias) = 3
    /\ copias[1].de = "GENEROS_ESPANOL" /\ ~copias[1].intacta
    /\ "pop_latino" \notin DOMAIN valor(objetos, copias[1].ref)
    /\ "nuevo" \in DOMAIN valor(objetos, copias[1].ref)
    /\ copias[2].de = "PLANTILLAS_LETRAS" /\ ~copias[2].intacta
    /\ valor(objetos, copias[2].ref)["amor"] = <<"x">>
    /\ copias[3].de = "GENEROS_ESPANOL" /\ copias[3].intacta
    /\ valor(objetos, copias[3].ref) = GENEROS_ESPANOL

\* The last call was generar_demo on a facade that was initialized
DemoSobreInicializado ==
    /\ ult.op = "generar_demo"
    /\ ult.antes.gen[1]._inicializado

\* The last call invoked the pipeline handle the facade had before it,
\* exactly once, with the demo parameters and a file named demo_<genero>
InvocacionDeDemo ==
    /\ Len(ult.invocaciones) = 1
    /\ ult.invocaciones[1].pipeline = ult.antes.gen[1]._pipeline
    /\ ult.invocaciones[1].kwargs.audio_duration = 30
    /\ ult.invocaciones[1].kwargs.infer_step = 27
    /\ ult.invocaciones[1].kwargs.guidance_scale = 12
    /\ \E i \in 1..(Len(ult.invocaciones[1].kwargs.save_path) - 1) :
           SubSeq(ult.invocaciones[1].kwargs.save_path, i, i + 1) = <<"demo_", ult.genero>>

VeredictoDeAmor == validar_letra(PlantillaAmor)

\* C14: a generar_cancion call without lyrics (generar_demo's included) uses
\* the "amor" template, whatever calls came before: the template passes
\* validar_letra, so with a genre of the catalog the call does not fail with
\* a lyric error, and the lyrics of every pipeline invocation it makes are
\* the template verbatim.
C14_LetraPorDefecto ==
    (ult.op \in {"generar_cancion", "generar_demo"} /\ ult.letra = None) =>
        /\ VeredictoDeAmor = <<TRUE, "">>
        /\ ult.genero \in DOMAIN GENEROS_ESPANOL => ~FalloCon(ult, "Error en la letra: ")
        /\ \A i \in 1..Len(ult.invocaciones) :
               /\ ult.invocaciones[i].kwargs.lyrics = PlantillaAmor
               /\ ult.invocaciones[i].kwargs.lyrics \notin {PlantillaFiesta, PlantillaReflexion}

C14_Testigo ==
    /\ ult.op = "generar_cancion"
    /\ ult.letra = None
    /\ llamadas = 3
    /\ previa.op = "generar_cancion"
    /\ Len(ult.invocaciones) = 1
    /\ ult.invocaciones[1].kwargs.lyrics = PlantillaAmor
    /\ Retorno(ult)
    /\ ult.salida.retorno.exitoso

\* The command line carries the option named
TieneOpcion(nombre) == \E i \in 1..Len(argv) : nombre \in DOMAIN argv[i]

\* The command line asks for a listing
PideListado == TieneOpcion("listar_generos") \/ TieneOpcion("listar_plantillas")

\* The run made no generation
NoGenera ==
    /\ proceso[1].generadores = <<>>
    /\ proceso[1].canciones = <<>>

\* The run made one generar_cancion call and its exit status is 0 if the call
\* returned a successful result and 1 otherwise
CodigoSegunResultado ==
    /\ Len(proceso[1].canciones) = 1
    /\ LET salida == proceso[1].canciones[1].r.salida
       IN  IF "retorno" \in DOMAIN salida /\ salida.retorno.exitoso
           THEN proceso[1].codigo = 0
           ELSE proceso[1].codigo = 1

\* The text is one or more decimal digits
EsNumero(t) ==
    /\ t # <<>>
    /\ \A i \in 1..Len(t) : t[i] \in {"0", "1", "2", "3", "4", "5", "6", "7", "8", "9"}

\* The parser accepts the command line: no --help, and every value is one
\* of the choices, or a number, of its option
LineaAceptada ==
    \A i \in 1..Len(argv) :
        /\ "help" \notin DOMAIN argv[i]
        /\ "genero" \in DOMAIN argv[i] => argv[i].genero \in DOMAIN GENEROS_ESPANOL
        /\ "plantilla" \in DOMAIN argv[i] => argv[i].plantilla \in {"amor", "fiesta", "reflexion"}
        /\ "duracion" \in DOMAIN argv[i] => EsNumero(argv[i].duracion)
        /\ "pasos" \in DOMAIN argv[i] => EsNumero(argv[i].pasos)
        /\ "semilla" \in DOMAIN argv[i] => EsNumero(argv[i].semilla)

\* C15 as stated: a run with a listing flag exits with 0 and generates
\* nothing, whatever other options are given; any other run makes one
\* generar_cancion call and exits with 0 if its result is successful and
\* with 1 otherwise.
C15_Original ==
    proceso # None =>
        IF PideListado
        THEN proceso[1].codigo = 0 /\ NoGenera
        ELSE CodigoSegunResultado

\* C15 amended: for a command line the parser accepts (no --help, every
\* value valid for its option), a run with a listing flag exits with 0 and
\* generates nothing, and any other run makes one generar_cancion call and
\* exits with 0 if that call returned a successful result and with 1
\* otherwise (the call raising included).  Any other command line ends in
\* the parser without generation, with 0 or 2.
C15_CodigosDeSalida ==
    proceso # None =>
        IF ~LineaAceptada
        THEN proceso[1].codigo \in {0, 2} /\ NoGenera
        ELSE IF PideListado
        THEN proceso[1].codigo = 0 /\ NoGenera
        ELSE CodigoSegunResultado

C15_Testigo ==
    /\ proceso # None
    /\ LineaAceptada
    /\ ~PideListado
    /\ TieneOpcion("plantilla")
    /\ TieneOpcion("duracion")
    /\ proceso[1].codigo = 1
    /\ Len(proceso[1].canciones) = 1
    /\ Len(proceso[1].canciones[1].r.invocaciones) = 1
    /\ "retorno" \in DOMAIN proceso[1].canciones[1].r.salida

MensajeGeneracion == "Error durante la generación: "

\* The last call invoked the pipeline and the invocation raised
InvocacionFallida ==
    /\ ult.op = "generar_cancion"
    /\ \E i \in 1..Len(ult.invocaciones) : "raise" \in DOMAIN ult.invocaciones[i].respuesta

\* The call before the last one was a generar_cancion call whose pipeline
\* invocation raised
PreviaInvocacionFallida ==
    /\ previa.op = "generar_cancion"
    /\ "exitoso" \in DOMAIN previa.salida
    /\ ~previa.salida.exitoso
    /\ previa.salida.mensaje[1] = MensajeGeneracion

\* What C16 says of the call whose pipeline invocation raises: it returns a
\* failed result whose message is the generation prefix followed by the
\* text of the exception, and the facade stays initialized with the handle
\* it invoked
C16_LlamadaFallida ==
    InvocacionFallida =>
        /\ Len(ult.invocaciones) = 1
        /\ FalloCon(ult, MensajeGeneracion)
        /\ ult.salida.retorno.mensaje
               = <<MensajeGeneracion, ult.invocaciones[1].respuesta.raise>>
        /\ gen._inicializado
        /\ gen._pipeline # None
        /\ gen._pipeline = ult.invocaciones[1].pipeline

C17_OrdenDeValidaciones ==
    ult.op = "generar_cancion" =>
        IF ult.genero \notin DOMAIN GENEROS_ESPANOL
        THEN /\ FalloCon(ult, "Género '")
             /\ ult.salida.retorno.mensaje[2] = ult.genero
        ELSE IF ~validar_letra_de[LetraUsada(ult)][1]
        THEN /\ Retorno(ult)
             /\ ~ult.salida.retorno.exitoso
             /\ ult.salida.retorno.mensaje
                    = <<"Error en la letra: ", validar_letra_de[LetraUsada(ult)][2]>>
        ELSE IF ult.duracion < 10 \/ ult.duracion > 240
        THEN /\ Retorno(ult)
             /\ ~ult.salida.retorno.exitoso
             /\ ult.salida.retorno.mensaje
                    = <<"La duración debe estar entre 10 y 240 segundos">>
        ELSE /\ ~FalloCon(ult, "Género '")
             /\ ~FalloCon(ult, "Error en la letra: ")
             /\ ~FalloCon(ult, "La duración debe estar entre 10 y 240 segundos")

C17_Testigo ==
    /\ ult.op = "generar_cancion"
    /\ ult.genero = "folclore"
    /\ ult.letra = Some(LetraCorta)
    /\ ult.duracion = 241
    /\ FalloCon(ult, "Error en la letra: ")
    /\ ult.salida.retorno.mensaje[2] = "La letra debe contener al menos 4 líneas de texto"
    /\ previa.op = "generar_cancion"
    /\ previa.salida.mensaje[1] = "Género '"

\* What C18 says of the generar_demo call itself: the facade it is called on
\* is afterwards as it was before (config, handle, flag), also when the
\* call found it uninitialized and constructed a pipeline
C18_DemoNoCambia ==
    ult.op = "generar_demo" =>
        /\ gen = ult.antes.gen[1]
        /\ (~ult.antes.gen[1]._inicializado
             /\ \E i \in 1..Len(ult.construcciones) : ult.construcciones[i].objeto # None) =>
               /\ ~gen._inicializado
               /\ gen._pipeline = None

\* The call before the last one was a generar_demo call that returned a
\* successful result, and the facade was uninitialized after it: the demo
\* constructed a pipeline of its own
PreviaDemoConPipelinePropio ==
    /\ previa.op = "generar_demo"
    /\ "exitoso" \in DOMAIN previa.salida
    /\ previa.salida.exitoso
    /\ ~ult.antes.gen[1]._inicializado
    /\ ult.antes.construidos >= 1

\* The last call attempted the construction of a new pipeline
OtraInicializacion ==
    /\ Len(ult.construcciones) = 1
    /\ ult.construcciones[1].objeto \in {None, Some(ult.antes.construidos + 1)}

\* C18: generar_demo leaves the facade it is called on as it was (config,
\* handle, flag); in particular, after a generar_demo call that constructed
\* a pipeline on an uninitialized facade the facade is still uninitialized,
\* so the next generar_cancion or generar_demo call on it whose genre, lyric
\* and duration pass the validations attempts another construction (a call
\* that fails a validation returns before any initialization).
C18_DemoNoInicializa ==
    /\ C18_DemoNoCambia
    /\ (ult.op \in {"generar_cancion", "generar_demo"} /\ PreviaDemoConPipelinePropio) =>
           IF EntradasValidas(ult)
           THEN OtraInicializacion
           ELSE ult.construcciones = <<>>

C18_Testigo ==
    /\ ult.op = "generar_cancion"
    /\ PreviaDemoConPipelinePropio
    /\ EntradasValidas(ult)
    /\ llamadas = 2
    /\ ult.antes.construidos = 1
    /\ ult.construcciones[1].objeto = Some(2)
    /\ gen._pipeline = Some(2)
    /\ construidos = 2

\* The flag of a facade is set exactly when it has a pipeline
BanderaSiiPipeline(f) == f._inicializado <=> f._pipeline # None

\* The facade on which the last call ran generar_cancion: the temporary one
\* of generar_demo, or the caller's
FachadaDeLaLlamada == IF ult.demo # None THEN ult.demo[1] ELSE gen

\* C19: in every state the flag of the facade, and of the temporary facade
\* of a generar_demo call, is set exactly when the facade has a pipeline; a
\* call sets the flag only if a construction of its own returned an object,
\* which is then the facade's pipeline; and a call whose construction failed
\* leaves the flag unset and the pipeline absent.
C19_BanderaYPipeline ==
    /\ BanderaSiiPipeline(gen)
    /\ ult.op # "ninguna" =>
           /\ BanderaSiiPipeline(ult.antes.gen[1])
           /\ BanderaSiiPipeline(FachadaDeLaLlamada)
           /\ (FachadaDeLaLlamada._inicializado /\ ~ult.antes.gen[1]._inicializado) =>
                  \E i \in 1..Len(ult.construcciones) :
                      /\ ult.construcciones[i].objeto # None
                      /\ ult.construcciones[i].objeto = FachadaDeLaLlamada._pipeline
           /\ (\E i \in 1..Len(ult.construcciones) : ult.construcciones[i].objeto = None) =>
                  /\ ~FachadaDeLaLlamada._inicializado
                  /\ FachadaDeLaLlamada._pipeline = None

C19_Testigo ==
    /\ ult.op = "generar_demo"
    /\ previa.op = "generar_cancion"
    /\ previa.salida = [exitoso |-> FALSE, mensaje |-> <<MensajeMemoria>>]
    /\ ult.demo[1]._inicializado
    /\ ult.demo[1]._pipeline = Some(1)
    /\ ~gen._inicializado
    /\ gen._pipeline = None

\* C20: a generar_demo call uses, apart from duration 30, 27 steps and
\* guidance scale 12, the defaults of ConfiguracionGeneracion and nothing of
\* the config of the facade it is called on: the directory it creates is the
\* default one, the save path of its invocation is
\* <default directory>/demo_<genero>.<default format>, the seed list is
\* absent and the other parameters are the defaults; and a pipeline it
\* constructs gets the default checkpoint, device, precision, compile and
\* CPU-offload settings.
C20_DemoIgnoraConfig ==
    ult.op = "generar_demo" =>
        /\ ult.demo[1].config =
               [k \in DOMAIN ConfiguracionPorDefecto |->
                   CASE k = "duracion_segundos" -> 30
                     [] k = "pasos_inferencia" -> 27
                     [] k = "escala_guia" -> 12
                     [] OTHER -> ConfiguracionPorDefecto[k]]
        /\ \A i \in 1..Len(ult.makedirs) : ult.makedirs[i].ruta = "./salidas_espanol"
        /\ \A i \in 1..Len(ult.invocaciones) :
               LET k == ult.invocaciones[i].kwargs
               IN  /\ k.save_path = <<"./salidas_espanol", "/", "demo_", ult.genero, ".", "wav">>
                   /\ k.manual_seeds = None
                   /\ k.format = "wav"
                   /\ k.audio_duration = 30
                   /\ k.infer_step = 27
                   /\ k.guidance_scale = 12
                   /\ k.scheduler_type = "euler"
                   /\ k.cfg_type = "apg"
                   /\ k.omega_scale = 10
                   /\ k.min_guidance_scale = 3
                   /\ k.use_erg_tag /\ k.use_erg_lyric /\ k.use_erg_diffusion
        /\ \A i \in 1..Len(ult.construcciones) :
               ult.construcciones[i].kwargs =
                   [checkpoint_dir |-> None, device_id |-> 0, dtype |-> "bfloat16",
                    torch_compile |-> FALSE, cpu_offload |-> FALSE]

C20_Testigo ==
    /\ ult.op = "generar_demo"
    /\ gen.config = ConfiguracionPersonal
    /\ gen.config.directorio_salida = "./salidas_test"
    /\ gen.config.formato_salida = "mp3"
    /\ gen.config.semillas # None
    /\ ~gen._inicializado
    /\ Len(ult.construcciones) = 1
    /\ ult.construcciones[1].objeto # None
    /\ Len(ult.invocaciones) = 1
    /\ "./salidas_espanol" \in directorios
    /\ "./salidas_test" \notin directorios

====
